---------------------------- MODULE Spec2Model ----------------------------
(***************************************************************************)
(* AirGapSync: the secure key store (rust_core/keychain.rs).               *)
(*                                                                         *)
(* The macOS keychain is a partial map from (service, account) to an       *)
(* opaque blob.  KeychainManager writes one JSON blob per device id under  *)
(* SERVICE_NAME; the blob holds the key material in standard base64 and    *)
(* the KeyMetadata.  Every public operation of the manager is one action.  *)
(***************************************************************************)
EXTENDS Integers, Sequences, FiniteSets, TLC

\* ------------------------------------------------------------------ bounds

\* Largest value of the wall clock (Utc::now()); every reading that a
\* returned key shows is later than the one before.
MaxClock == 2
\* Number of distinct outputs the random source can produce per key size.
NumSeeds == 1
\* Total number of calls that write to the keychain.
MaxWrites == 2

\* ------------------------------------------------------------ u32 values

\* A u32 is kept as two 16-bit limbs <<hi, lo>>, so that the values around
\* 2^32 - 1 are represented exactly.
Limb == 65536

U32(n) == <<n \div Limb, n % Limb>>

U32_MAX == <<Limb - 1, Limb - 1>>

IsU32(v) == /\ v[1] \in 0..(Limb - 1)
            /\ v[2] \in 0..(Limb - 1)

\* a < b on u32 values.
U32Lt(a, b) == \/ a[1] < b[1]
               \/ (a[1] = b[1] /\ a[2] < b[2])

\* b is the integer a + 1 (no u32 is the successor of 2^32 - 1).
IsSuccessor(a, b) == \/ (a[2] < Limb - 1 /\ b = <<a[1], a[2] + 1>>)
                     \/ (a[2] = Limb - 1 /\ a[1] < Limb - 1 /\ b = <<a[1] + 1, 0>>)

\* `version + 1` on u32 as the build computes it: with overflow checks
\* (debug profile) the addition panics at u32::MAX, without them (release
\* profile) it wraps to 0.
AddOne(v, checks) ==
    IF v = U32_MAX
    THEN IF checks THEN [panic |-> TRUE, value |-> v]
                   ELSE [panic |-> FALSE, value |-> <<0, 0>>]
    ELSE IF v[2] = Limb - 1
         THEN [panic |-> FALSE, value |-> <<v[1] + 1, 0>>]
         ELSE [panic |-> FALSE, value |-> <<v[1], v[2] + 1>>]

\* ---------------------------------------------- decimal text of a u32

\* v divided by ten: quotient (as limbs) and remainder.
DivMod10(v) ==
    LET r1 == v[1] % 10
        n2 == r1 * Limb + v[2]
    IN  [q |-> <<v[1] \div 10, n2 \div 10>>, r |-> n2 % 10]

RECURSIVE DecimalDigits(_)
\* serde_json writes a u32 as its decimal digits, most significant first.
DecimalDigits(v) ==
    IF v[1] = 0 /\ v[2] < 10
    THEN <<v[2]>>
    ELSE Append(DecimalDigits(DivMod10(v).q), DivMod10(v).r)

RECURSIVE ParseDecimal(_, _)
\* serde_json reads a u32 from decimal digits; <<>> when it does not fit.
ParseDecimal(digits, acc) ==
    IF digits = <<>>
    THEN <<acc>>
    ELSE LET lo == acc[2] * 10 + Head(digits)
             hi == acc[1] * 10 + (lo \div Limb)
         IN  IF hi >= Limb THEN <<>>
                           ELSE ParseDecimal(Tail(digits), <<hi, lo % Limb>>)

\* ------------------------------------------------------- standard base64

\* A base64 text is a sequence of alphabet indices 0..63; PAD is '='.
PAD == 64

\* min(3, n): how many of the three bytes of group g (from 0) exist.
GroupBytes(n, g) == IF n - 3 * g >= 3 THEN 3 ELSE n - 3 * g

\* Character j of the padded base64 text of bytes.
Base64Char(bytes, j) ==
    LET n == Len(bytes)
        byte(i) == IF i <= n THEN bytes[i] ELSE 0
        g == (j - 1) \div 4
        k == (j - 1) % 4
        m == GroupBytes(n, g)
        b1 == byte(3 * g + 1)
        b2 == byte(3 * g + 2)
        b3 == byte(3 * g + 3)
    IN  CASE k = 0 -> b1 \div 4
          [] k = 1 -> (b1 % 4) * 16 + (b2 \div 16)
          [] k = 2 -> IF m < 2 THEN PAD ELSE (b2 % 16) * 4 + (b3 \div 64)
          [] OTHER -> IF m < 3 THEN PAD ELSE b3 % 64

\* Mutant of Base64Encode: the text without its '=' padding, as the
\* STANDARD_NO_PAD engine writes it.
Base64EncodeNoPad(bytes) ==
    LET n == Len(bytes)
    IN  [j \in 1..(4 * (n \div 3) + (IF n % 3 = 0 THEN 0 ELSE (n % 3) + 1)) |->
            Base64Char(bytes, j)]

\* base64::engine::general_purpose::STANDARD.encode: every group of three
\* bytes gives four characters; a final group of one or two bytes gives two
\* or three characters and is padded with '=' to four.
Base64Encode(bytes) ==
    [j \in 1..(4 * ((Len(bytes) + 2) \div 3)) |-> Base64Char(bytes, j)]

\* STANDARD.decode: <<bytes>> on success, <<>> on a DecodeError.  The engine
\* wants whole groups of four characters, padding only at the end and only
\* in its canonical form, and zero bits after the last byte.
Base64Decode(text) ==
    LET len == Len(text)
        pads == IF len = 0 THEN 0
                ELSE IF text[len] # PAD THEN 0
                ELSE IF len >= 2 /\ text[len - 1] = PAD THEN 2 ELSE 1
        n == 3 * (len \div 4) - pads
        valid == /\ len % 4 = 0
                 /\ \A j \in 1..(len - pads) : text[j] # PAD
                 /\ pads = 1 => text[len - 1] % 4 = 0
                 /\ pads = 2 => text[len - 2] % 16 = 0
    IN  IF ~valid THEN <<>>
        ELSE << [i \in 1..n |->
                    LET g == (i - 1) \div 3
                        k == (i - 1) % 3
                        c1 == text[4 * g + 1]
                        c2 == text[4 * g + 2]
                        c3 == text[4 * g + 3]
                        c4 == text[4 * g + 4]
                    IN  CASE k = 0 -> c1 * 4 + (c2 \div 16)
                          [] k = 1 -> (c2 % 16) * 16 + (c3 \div 4)
                          [] OTHER -> (c3 % 4) * 64 + c4] >>

\* ------------------------------------------------------- the random source

\* What one SystemRandom::fill can do: 0 is a failure of the entropy source,
\* 1..NumSeeds pick the bytes it writes.
RngDraws == 0..NumSeeds

\* The buffer of n bytes written by draw number `draw`.
Fill(draw, n) == [i \in 1..n |-> (draw * 89 + i * 7) % 256]

\* ------------------------------------------------------------- the records

DeviceIds == {"USB001", "USB002"}

\* Service name for keychain entries.  A service name is kept as the
\* sequence of the pieces it is formatted from.
SERVICE_NAME == <<"com.airgapsync.keys">>

\* format!("{}.deleted", self.service_name)
DeletedService(service) == Append(service, ".deleted")

KeyMetadata(algorithm, created_at, rotated_at, version, device_id) ==
    [algorithm |-> algorithm, created_at |-> created_at,
     rotated_at |-> rotated_at, version |-> version, device_id |-> device_id]

EncryptionKey(key_material, metadata) ==
    [key_material |-> key_material, metadata |-> metadata]

\* KeyData as serde_json::to_string writes it: one JSON object; the blob is
\* the one-element sequence holding it, and <<>> is the empty blob b"".
SerializeKeyData(key_data) ==
    << [material |-> key_data.material,
        metadata |-> [algorithm  |-> key_data.metadata.algorithm,
                      created_at |-> key_data.metadata.created_at,
                      rotated_at |-> key_data.metadata.rotated_at,
                      version    |-> DecimalDigits(key_data.metadata.version),
                      device_id  |-> key_data.metadata.device_id]] >>

\* serde_json::from_slice::<KeyData>: <<key_data>> or <<>> on a parse error
\* (empty input, or a version that is no u32).
DeserializeKeyData(blob) ==
    IF blob = <<>> THEN <<>>
    ELSE LET obj == blob[1]
             version == ParseDecimal(obj.metadata.version, <<0, 0>>)
         IN  IF version = <<>> THEN <<>>
             ELSE << [material |-> obj.material,
                      metadata |-> KeyMetadata(obj.metadata.algorithm,
                                               obj.metadata.created_at,
                                               obj.metadata.rotated_at,
                                               version[1],
                                               obj.metadata.device_id)] >>

\* ------------------------------------------------- the Security framework

\* errSecItemNotFound
errSecItemNotFound == -25300

\* The statuses the keychain can answer a call with besides the answer of
\* the lookup itself: 0 (the call is served) or errSecAuthFailed.
BackendStatus == {0, -25293}

\* What the keychain answers to the (at most two) keychain calls of one
\* operation: both served, the first refused, or the second refused.
BackendAnswers == {<<0, 0>>, <<-25293, 0>>, <<0, -25293>>}

\* find_generic_password(None, service, account): the stored blob, or the
\* error status.
find_generic_password(kc, service, account, backend) ==
    IF backend # 0 THEN [ok |-> FALSE, code |-> backend, data |-> <<>>]
    ELSE IF <<service, account>> \notin DOMAIN kc
    THEN [ok |-> FALSE, code |-> errSecItemNotFound, data |-> <<>>]
    ELSE [ok |-> TRUE, code |-> 0, data |-> kc[<<service, account>>]]

\* Mutant of set_generic_password: an item that exists already is left as
\* it is (the duplicate-item answer of the add is taken for success).
set_generic_password_add_only(kc, service, account, data, backend) ==
    IF backend # 0 THEN [ok |-> FALSE, keychain |-> kc]
    ELSE IF <<service, account>> \in DOMAIN kc
    THEN [ok |-> TRUE, keychain |-> kc]
    ELSE [ok |-> TRUE,
          keychain |-> [p \in DOMAIN kc \cup {<<service, account>>} |->
                            IF p = <<service, account>> THEN data ELSE kc[p]]]

\* set_generic_password(service, account, data): adds the item, or replaces
\* the data of the item already stored under (service, account).
set_generic_password(kc, service, account, data, backend) ==
    IF backend # 0 THEN [ok |-> FALSE, keychain |-> kc]
    ELSE [ok |-> TRUE,
          keychain |-> [p \in DOMAIN kc \cup {<<service, account>>} |->
                            IF p = <<service, account>> THEN data ELSE kc[p]]]

\* ------------------------------------------------------- KeychainManager

\* KeychainManager::new(): the manager the library and the CLI use.
service_name == SERVICE_NAME

\* KeychainManager::store_key
store_key(kc, device_id, key, backend) ==
    LET key_data == [material |-> Base64Encode(key.key_material),
                     metadata |-> key.metadata]
        serialized == SerializeKeyData(key_data)
        written == set_generic_password(kc, service_name, device_id,
                                        serialized, backend)
    IN  IF written.ok
        THEN [status |-> "Ok", keychain |-> written.keychain]
        ELSE [status |-> "SecurityFramework", keychain |-> kc]

\* KeychainManager::get_key
get_key(kc, device_id, backend) ==
    LET found == find_generic_password(kc, service_name, device_id, backend)
    IN  IF ~found.ok
        THEN IF found.code = errSecItemNotFound
             THEN [status |-> "KeyNotFound", key |-> <<>>]
             ELSE [status |-> "SecurityFramework", key |-> <<>>]
        ELSE LET key_data == DeserializeKeyData(found.data)
             IN  IF key_data = <<>>
                 THEN [status |-> "EncodingError", key |-> <<>>]
                 ELSE LET key_material == Base64Decode(key_data[1].material)
                      IN  IF key_material = <<>>
                          THEN [status |-> "EncodingError", key |-> <<>>]
                          ELSE [status |-> "Ok",
                                key |-> <<EncryptionKey(key_material[1],
                                                        key_data[1].metadata)>>]

\* Mutant of key_exists: only the answer "item not found" counts as absent.
key_exists_unless_not_found(kc, device_id, backend) ==
    find_generic_password(kc, service_name, device_id, backend).code
        # errSecItemNotFound

\* KeychainManager::key_exists
key_exists(kc, device_id, backend) ==
    find_generic_password(kc, service_name, device_id, backend).ok

\* Mutant of delete_key: the existence check is missing.
delete_key_unchecked(kc, device_id, backend1, backend2) ==
    LET written == set_generic_password(kc, DeletedService(service_name),
                                        device_id, <<>>, backend2)
    IN  IF written.ok
        THEN [status |-> "Ok", keychain |-> written.keychain]
        ELSE [status |-> "SecurityFramework", keychain |-> kc]

\* KeychainManager::delete_key
delete_key(kc, device_id, backend1, backend2) ==
    IF ~key_exists(kc, device_id, backend1)
    THEN [status |-> "KeyNotFound", keychain |-> kc]
    ELSE LET written == set_generic_password(kc, DeletedService(service_name),
                                             device_id, <<>>, backend2)
         IN  IF written.ok
             THEN [status |-> "Ok", keychain |-> written.keychain]
             ELSE [status |-> "SecurityFramework", keychain |-> kc]

\* KeychainManager::list_devices
list_devices(kc) == [status |-> "Ok", devices |-> <<>>]

\* Mutant of update_metadata: the record is rebuilt from the metadata and
\* the material read is not carried over.
update_metadata_drops_material(kc, device_id, metadata, backend1, backend2) ==
    LET got == get_key(kc, device_id, backend1)
    IN  IF got.status # "Ok"
        THEN [status |-> got.status, keychain |-> kc]
        ELSE store_key(kc, device_id, EncryptionKey(<<>>, metadata), backend2)

\* KeychainManager::update_metadata
update_metadata(kc, device_id, metadata, backend1, backend2) ==
    LET got == get_key(kc, device_id, backend1)
    IN  IF got.status # "Ok"
        THEN [status |-> got.status, keychain |-> kc]
        ELSE store_key(kc, device_id,
                       [got.key[1] EXCEPT !.metadata = metadata], backend2)

\* ------------------------------------------------ generate_key, rotate_key

Algorithms == {"AES-256", "AES-128", "ChaCha20", "RSA-2048"}

\* The match of generate_key: the key size of an algorithm name, 0 for a
\* name it does not know.
key_size(algorithm) ==
    CASE algorithm = "AES-256" -> 32
      [] algorithm = "AES-128" -> 16
      [] algorithm = "ChaCha20" -> 32
      [] OTHER -> 0

\* generate_key(algorithm, device_id), with the random source's draw and the
\* clock's reading.
generate_key(algorithm, device_id, draw, clock) ==
    IF key_size(algorithm) = 0
    THEN [status |-> "InvalidKeyFormat", key |-> <<>>]
    ELSE IF draw = 0
    THEN [status |-> "EncodingError", key |-> <<>>]
    ELSE [status |-> "Ok",
          key |-> <<EncryptionKey(Fill(draw, key_size(algorithm)),
                                  KeyMetadata(algorithm, clock, <<>>,
                                              U32(1), device_id))>>]

\* Mutant of rotated: the version of the old key is carried over as it is.
rotated_keeps_version(old_key, new_key, version, clock) ==
    [new_key EXCEPT !.metadata.version = old_key.metadata.version,
                    !.metadata.rotated_at = <<clock>>,
                    !.metadata.created_at = old_key.metadata.created_at]

\* The metadata update of rotate_key on the freshly generated key.
rotated(old_key, new_key, version, clock) ==
    [new_key EXCEPT !.metadata.version = version,
                    !.metadata.rotated_at = <<clock>>,
                    !.metadata.created_at = old_key.metadata.created_at]

\* rotate_key(keychain, device_id)
rotate_key(kc, device_id, draw, clock, checks, backend1, backend2) ==
    LET old == get_key(kc, device_id, backend1)
    IN  IF old.status # "Ok"
        THEN [status |-> old.status, key |-> <<>>, keychain |-> kc]
        ELSE
        LET old_key == old.key[1]
            new == generate_key(old_key.metadata.algorithm, device_id,
                                draw, clock)
            sum == AddOne(old_key.metadata.version, checks)
        IN  IF new.status # "Ok"
            THEN [status |-> new.status, key |-> <<>>, keychain |-> kc]
            ELSE IF sum.panic
            THEN [status |-> "panic", key |-> <<>>, keychain |-> kc]
            ELSE
            LET new_key == rotated(old_key, new.key[1], sum.value, clock)
                stored == store_key(kc, device_id, new_key, backend2)
            IN  IF stored.status # "Ok"
                THEN [status |-> stored.status, key |-> <<>>, keychain |-> kc]
                ELSE [status |-> "Ok", key |-> <<new_key>>,
                      keychain |-> stored.keychain]

\* ------------------------------------------------------------ the state

VARIABLES
    keychain,         \* the OS keychain: (service, account) -> blob
    now,              \* the last reading of the wall clock
    overflow_checks,  \* the build profile: TRUE when `+` panics on overflow
    ret,              \* the last call: its arguments and what it returned
    pure,             \* accounts whose record came from generate_key and
                      \* was changed by rotate_key only
    writes,           \* number of calls that wrote to the keychain so far
    calls,            \* what is alive besides the last call: the calls in
                      \* flight on other threads, each with the point it
                      \* has reached and its local values, and the sealing
                      \* or opening key a caller holds
    files             \* the file system: file name -> content

vars == <<keychain, now, overflow_checks, ret, pure, writes, calls, files>>

\* Key bytes a caller brings along (none of them an output of Fill).
CallerBytes(n) == [i \in 1..n |-> (i * 13 + 5) % 256]

\* Keys a caller builds itself (all fields of EncryptionKey are public).
InputKeys ==
    { EncryptionKey(<<255>>,
                    KeyMetadata("AES-256", 0, <<>>, U32(1), "USB001")),
      EncryptionKey(CallerBytes(32),
                    KeyMetadata("ChaCha20", 0, <<0>>, U32_MAX, "USB001")),
      EncryptionKey(<<16, 32>>,
                    KeyMetadata("RSA-2048", 1, <<1>>, U32(Limb - 1), "USB002")) }

\* Metadata a caller passes to update_metadata.
InputMetadata ==
    { KeyMetadata("ChaCha20", 2, <<1>>, U32_MAX, "USB002") }

\* The record of a call.  Options are sequences of length 0 or 1.
Call(op, device_id, status, key, arg, lookup, draw) ==
    [op |-> op, device_id |-> device_id, status |-> status, key |-> key,
     arg |-> arg, lookup |-> lookup, draw |-> draw,
     exists |-> FALSE, devices |-> <<>>]

\* The keychain outlives the process.  What earlier runs can have left in
\* it: nothing, or for USB001 a key that was generated and then rotated
\* until its version is 2^32 - 2.
PriorKey ==
    rotated(generate_key("AES-256", "USB001", 1, 0).key[1],
            generate_key("AES-256", "USB001", 2, 0).key[1],
            <<Limb - 1, Limb - 2>>, 0)

Init ==
    /\ \/ /\ keychain = <<>>
          /\ pure = {}
       \/ /\ keychain = store_key(<<>>, "USB001", PriorKey, 0).keychain
          /\ pure = {"USB001"}
    /\ now = 0
    /\ overflow_checks \in BOOLEAN
    /\ ret = Call("new", "", "Ok", <<>>, <<>>, 0, 0)
    /\ writes = 0
    /\ calls = <<>>
    /\ files = <<>>

\* ----------------------------------------------------------- the calls

\* store_key with a key the caller built itself.
StoreKey ==
    \E device_id \in DeviceIds, key \in InputKeys, backend \in BackendStatus :
        \E r \in {store_key(keychain, device_id, key, backend)} :
            /\ r.status = "Ok" => writes < MaxWrites
            /\ keychain' = r.keychain
            /\ writes' = IF r.status = "Ok" THEN writes + 1 ELSE writes
            /\ ret' = Call("store_key", device_id, r.status, <<>>, <<key>>,
                           backend, 0)
            /\ pure' = IF r.status = "Ok" THEN pure \ {device_id} ELSE pure
            /\ UNCHANGED <<calls, files, now, overflow_checks>>

\* store_key with the key generate_key has just returned, under the device
\* id it was generated for (cmd_keygen, test_keychain_store_retrieve).
StoreGeneratedKey ==
    \E backend \in BackendStatus :
        /\ ret.op = "generate_key"
        /\ ret.status = "Ok"
        /\ \E r \in {store_key(keychain, ret.device_id, ret.key[1], backend)} :
            /\ r.status = "Ok" => writes < MaxWrites
            /\ keychain' = r.keychain
            /\ writes' = IF r.status = "Ok" THEN writes + 1 ELSE writes
            /\ ret' = Call("store_key", ret.device_id, r.status, <<>>, ret.key,
                           backend, 0)
            /\ pure' = IF r.status = "Ok" THEN pure \cup {ret.device_id}
                                          ELSE pure
            /\ UNCHANGED <<calls, files, now, overflow_checks>>

GetKey ==
    \E device_id \in DeviceIds, backend \in BackendStatus :
        \E r \in {get_key(keychain, device_id, backend)} :
            /\ ret' = Call("get_key", device_id, r.status, r.key, <<>>,
                           backend, 0)
            /\ UNCHANGED <<calls, files, keychain, now, overflow_checks, pure, writes>>

KeyExists ==
    \E device_id \in DeviceIds, backend \in BackendStatus :
        /\ ret' = [Call("key_exists", device_id, "Ok", <<>>, <<>>, backend, 0)
                     EXCEPT !.exists = key_exists(keychain, device_id, backend)]
        /\ UNCHANGED <<calls, files, keychain, now, overflow_checks, pure, writes>>

DeleteKey ==
    \E device_id \in DeviceIds, backend \in BackendAnswers :
        \E r \in {delete_key(keychain, device_id, backend[1], backend[2])} :
            /\ r.status = "Ok" => writes < MaxWrites
            /\ keychain' = r.keychain
            /\ writes' = IF r.status = "Ok" THEN writes + 1 ELSE writes
            /\ ret' = Call("delete_key", device_id, r.status, <<>>, <<>>,
                           backend[1], 0)
            /\ UNCHANGED <<calls, files, now, overflow_checks, pure>>

ListDevices ==
    \E r \in {list_devices(keychain)} :
        /\ ret' = [Call("list_devices", "", r.status, <<>>, <<>>, 0, 0)
                     EXCEPT !.devices = r.devices]
        /\ UNCHANGED <<calls, files, keychain, now, overflow_checks, pure, writes>>

UpdateMetadata ==
    \E device_id \in DeviceIds, metadata \in InputMetadata,
       backend \in BackendAnswers :
        \E r \in {update_metadata(keychain, device_id, metadata,
                                  backend[1], backend[2])} :
            /\ r.status = "Ok" => writes < MaxWrites
            /\ keychain' = r.keychain
            /\ writes' = IF r.status = "Ok" THEN writes + 1 ELSE writes
            /\ ret' = Call("update_metadata", device_id, r.status, <<>>,
                           <<metadata>>, backend[1], 0)
            /\ pure' = IF r.status = "Ok" THEN pure \ {device_id} ELSE pure
            /\ UNCHANGED <<calls, files, now, overflow_checks>>

\* generate_key reads the clock (a reading that no returned key shows is
\* left out).
GenerateKey ==
    \E algorithm \in Algorithms, device_id \in DeviceIds, draw \in RngDraws :
        \E r \in {generate_key(algorithm, device_id, draw, now + 1)} :
            /\ r.status = "Ok" => now < MaxClock
            /\ now' = IF r.status = "Ok" THEN now + 1 ELSE now
            /\ ret' = Call("generate_key", device_id, r.status, r.key,
                           <<algorithm>>, 0, draw)
            /\ UNCHANGED <<calls, files, keychain, overflow_checks, pure, writes>>

RotateKey ==
    \E device_id \in DeviceIds, draw \in RngDraws, backend \in BackendAnswers :
        \E r \in {rotate_key(keychain, device_id, draw, now + 1,
                             overflow_checks, backend[1], backend[2])} :
            /\ r.status = "Ok" => (writes < MaxWrites /\ now < MaxClock)
            /\ keychain' = r.keychain
            /\ now' = IF r.status = "Ok" THEN now + 1 ELSE now
            /\ ret' = Call("rotate_key", device_id, r.status, r.key, <<>>,
                           backend[1], draw)
            /\ writes' = IF r.status = "Ok" THEN writes + 1 ELSE writes
            /\ UNCHANGED <<calls, files, overflow_checks, pure>>

Next ==
    \/ StoreKey
    \/ StoreGeneratedKey
    \/ GetKey
    \/ KeyExists
    \/ DeleteKey
    \/ ListDevices
    \/ UpdateMetadata
    \/ GenerateKey
    \/ RotateKey

Spec == Init /\ [][Next]_vars

\* ------------------------------------------------------------ the claims

\* What the stored record of device_id is, read with the keychain serving
\* the lookup: <<key>>, or <<>> when there is none.
Stored(kc, device_id) == get_key(kc, device_id, 0).key

HasEntry(kc, device_id) == <<service_name, device_id>> \in DOMAIN kc

\* Every keychain item except the one of (service_name, device_id) is the
\* same in kc1 and kc2.
OthersUnchanged(kc1, kc2, device_id) ==
    /\ DOMAIN kc1 \ {<<service_name, device_id>>}
         = DOMAIN kc2 \ {<<service_name, device_id>>}
    /\ \A p \in DOMAIN kc1 \ {<<service_name, device_id>>} : kc1[p] = kc2[p]

\* C1: a successful rotate_key(store, d) on the stored record r returns and
\* stores a record with version r.version + 1, created_at r.created_at,
\* device_id d, algorithm r.algorithm, rotated_at set and material drawn
\* from the random source; a following get_key(d) returns that record.
C1_RotateContract ==
    [][(ret'.op = "rotate_key" /\ ret'.status = "Ok") =>
        LET d == ret'.device_id
            r == Stored(keychain, d)[1]
            n == ret'.key[1]
        IN  /\ IsSuccessor(r.metadata.version, n.metadata.version)
            /\ n.metadata.created_at = r.metadata.created_at
            /\ n.metadata.device_id = d
            /\ n.metadata.algorithm = r.metadata.algorithm
            /\ n.metadata.rotated_at # <<>>
            /\ n.key_material = Fill(ret'.draw, key_size(r.metadata.algorithm))
            /\ get_key(keychain', d, 0) = [status |-> "Ok", key |-> <<n>>]
      ]_vars

\* C2: after delete_key(d) returns Ok, key_exists(d) is false and get_key(d)
\* returns KeyNotFound.
C2_DeleteRemoves ==
    (ret.op = "delete_key" /\ ret.status = "Ok") =>
        /\ ~key_exists(keychain, ret.device_id, 0)
        /\ get_key(keychain, ret.device_id, 0).status = "KeyNotFound"

\* C3: after store_key(d, k) returns Ok, get_key(d) returns a key with the
\* material and the metadata of k.
C3_StoreGetRoundTrip ==
    (ret.op = "store_key" /\ ret.status = "Ok") =>
        get_key(keychain, ret.device_id, 0) = [status |-> "Ok", key |-> ret.arg]

\* C3 witness: a 32-byte key and a 1-byte key have been stored and read back.
C3_Witness ==
    /\ ret.op = "store_key"
    /\ ret.status = "Ok"
    /\ Len(ret.arg[1].key_material) = 32
    /\ Stored(keychain, ret.device_id) = ret.arg
    /\ \E d \in DeviceIds : /\ Stored(keychain, d) # <<>>
                            /\ Len(Stored(keychain, d)[1].key_material) = 1

\* C4: a successful store_key(d, k2) replaces whatever was stored for d: the
\* keychain holds the one item of d, get_key(d) returns k2, and the items of
\* every other device id are unchanged.
C4_StoreReplaces ==
    [][(ret'.op = "store_key" /\ ret'.status = "Ok") =>
        LET d == ret'.device_id
        IN  /\ HasEntry(keychain', d)
            /\ get_key(keychain', d, 0) = [status |-> "Ok", key |-> ret'.arg]
            /\ OthersUnchanged(keychain, keychain', d)
      ]_vars

\* C4 witness: two stores were made, both on USB002 (nothing else is in the
\* keychain), and the record read back is the key of the second.
C4_Witness ==
    /\ ret.op = "store_key"
    /\ ret.status = "Ok"
    /\ ret.device_id = "USB002"
    /\ writes = 2
    /\ DOMAIN keychain = {<<service_name, "USB002">>}
    /\ Stored(keychain, "USB002") = ret.arg

\* C5: a successful update_metadata(d, m) leaves the material of d as it
\* was, makes the metadata m, and changes no other item.
C5_UpdatePreservesMaterial ==
    [][(ret'.op = "update_metadata" /\ ret'.status = "Ok") =>
        LET d == ret'.device_id
            before == Stored(keychain, d)
            after == Stored(keychain', d)
        IN  /\ before # <<>>
            /\ after # <<>>
            /\ after[1].key_material = before[1].key_material
            /\ after[1].metadata = ret'.arg[1]
            /\ OthersUnchanged(keychain, keychain', d)
      ]_vars

\* C5 witness: the record of a device holds the 1-byte material stored
\* earlier and the metadata update_metadata was given.
C5_Witness ==
    /\ ret.op = "update_metadata"
    /\ ret.status = "Ok"
    /\ Stored(keychain, ret.device_id) # <<>>
    /\ Stored(keychain, ret.device_id)[1].key_material = <<255>>
    /\ Stored(keychain, ret.device_id)[1].metadata = ret.arg[1]

\* C6: when the lookup finds no entry for the device id, get_key,
\* delete_key, update_metadata and rotate_key return KeyNotFound; on a
\* device id with no entry they leave the keychain as it is.
C6_AbsentKeyNotFound ==
    [][(/\ ret'.op \in {"get_key", "delete_key", "update_metadata", "rotate_key"}
        /\ ~HasEntry(keychain, ret'.device_id)) =>
        /\ keychain' = keychain
        /\ ret'.op = "delete_key" => ret'.status = "KeyNotFound"
        /\ find_generic_password(keychain, service_name, ret'.device_id,
                                 ret'.lookup).code = errSecItemNotFound
             => ret'.status = "KeyNotFound"
      ]_vars

\* C6 witness: rotate_key on a device id without entry returned KeyNotFound
\* while the other device id has one.
C6_Witness ==
    /\ ret.op = "rotate_key"
    /\ ret.status = "KeyNotFound"
    /\ ~HasEntry(keychain, ret.device_id)
    /\ \E d \in DeviceIds : HasEntry(keychain, d)

\* C7: key_exists never fails; it is true exactly when an entry is stored
\* and the lookup is served, false when there is none or the lookup fails,
\* and it does not change the keychain.
C7_KeyExistsTotal ==
    [][ret'.op = "key_exists" =>
        /\ ret'.status = "Ok"
        /\ ret'.exists = (HasEntry(keychain, ret'.device_id) /\ ret'.lookup = 0)
        /\ keychain' = keychain
      ]_vars

\* C7 witness: key_exists answered false for a stored entry because the
\* lookup failed.
C7_Witness ==
    /\ ret.op = "key_exists"
    /\ ret.lookup # 0
    /\ HasEntry(keychain, ret.device_id)
    /\ ~ret.exists

\* C8: list_devices returns exactly the device ids with a stored entry.
C8_ListDevicesComplete ==
    ret.op = "list_devices" =>
        {ret.devices[i] : i \in DOMAIN ret.devices}
            = {d \in DeviceIds : HasEntry(keychain, d)}

\* C9: every successful rotate_key makes the stored version strictly larger,
\* from every starting version including 2^32 - 1.
C9_VersionIncreases ==
    [][(ret'.op = "rotate_key" /\ ret'.status = "Ok") =>
        U32Lt(Stored(keychain, ret'.device_id)[1].metadata.version,
              Stored(keychain', ret'.device_id)[1].metadata.version)
      ]_vars

\* C10: a record generate_key returns has version 1, no rotated_at, the
\* given device id and algorithm and material of the algorithm's key size;
\* every record that came from generate_key by rotate_key calls has
\* version >= 1, and rotated_at set exactly when version > 1.
C10_GeneratedAndRotated ==
    /\ (ret.op = "generate_key" /\ ret.status = "Ok") =>
        /\ ret.key[1].metadata.version = U32(1)
        /\ ret.key[1].metadata.rotated_at = <<>>
        /\ ret.key[1].metadata.device_id = ret.device_id
        /\ ret.key[1].metadata.algorithm = ret.arg[1]
        /\ Len(ret.key[1].key_material) = key_size(ret.arg[1])
        /\ key_size(ret.arg[1]) \in {16, 32}
    /\ \A d \in pure :
        LET m == Stored(keychain, d)[1].metadata
        IN  /\ U32Lt(U32(0), m.version)
            /\ (m.rotated_at # <<>>) <=> U32Lt(U32(1), m.version)

\* ====================================================== rust_core/crypto.rs
\* crypto.rs keeps no state of its own: every function is a call on its
\* arguments and the random source.  ret holds the last call.

\* Number of distinct nonces the random source can produce.
MaxNonces == 2
\* Longest plaintext handed to encrypt.
MaxPlain == 1
\* Longest slice handed to secure_compare.
MaxCompareLen == 2

\* enum Algorithm
Algorithm == {"Aes256Gcm", "ChaCha20Poly1305"}

\* Algorithm::key_size
Algorithm_key_size(algorithm) ==
    CASE algorithm = "Aes256Gcm" -> 32
      [] algorithm = "ChaCha20Poly1305" -> 32

\* Algorithm::nonce_size
nonce_size(algorithm) ==
    CASE algorithm = "Aes256Gcm" -> 12
      [] algorithm = "ChaCha20Poly1305" -> 12

\* Algorithm::tag_size
tag_size(algorithm) ==
    CASE algorithm = "Aes256Gcm" -> 16
      [] algorithm = "ChaCha20Poly1305" -> 16

\* ---------------------------------------------------------- ring::aead
\* The AEAD of ring is taken by its contract: sealing is a keyed, nonce
\* dependent stream over the plaintext followed by a 16-byte tag that
\* depends on the algorithm, the key, the nonce, the associated data and
\* the ciphertext; opening checks the tag before it returns anything.

\* ring::aead::NONCE_LEN
NONCE_LEN == 12
\* Length of the tag of both algorithms (ring::aead::MAX_TAG_LEN).
TAG_LEN == 16
\* Size of the digest the stream and the tag are computed from.
DigestModulus == 1048573

RECURSIVE Digest(_, _, _)
\* A digest of bytes[lo..hi] that depends on every byte and its position.
Digest(bytes, lo, hi) ==
    IF lo > hi THEN 1
    ELSE IF lo = hi THEN bytes[lo] + 2
    ELSE LET mid == (lo + hi) \div 2
         IN  (Digest(bytes, lo, mid) * 1021 + Digest(bytes, mid + 1, hi) * 31
              + 7) % DigestModulus

\* &AES_256_GCM / &CHACHA20_POLY1305
AlgorithmId(algorithm) == IF algorithm = "Aes256Gcm" THEN 1 ELSE 2

\* UnboundKey::new: refuses key bytes of another length than the algorithm's.
UnboundKey_new(algorithm, key_bytes) ==
    Len(key_bytes) = Algorithm_key_size(algorithm)

\* Nonce::try_assume_unique_for_key: refuses all but 12 bytes.
try_assume_unique_for_key(nonce) == Len(nonce) = NONCE_LEN

\* Digest of (algorithm, key, nonce): the seed of the key stream.
StreamSeed(algorithm, key_bytes, nonce) ==
    LET all == <<AlgorithmId(algorithm)>> \o key_bytes \o nonce
    IN  Digest(all, 1, Len(all))

\* The tag over the associated data and the ciphertext.
AeadTag(algorithm, key_bytes, nonce, aad, ct) ==
    LET all == <<AlgorithmId(algorithm)>> \o key_bytes \o nonce
               \o <<Len(aad)>> \o aad \o ct
        d == Digest(all, 1, Len(all))
    IN  [j \in 1..TAG_LEN |->
            CASE j = 1 -> d % 256
              [] j = 2 -> (d \div 256) % 256
              [] j = 3 -> d \div 65536
              [] OTHER -> (d * j + j) % 256]

\* SealingKey::seal_in_place_append_tag: ciphertext || tag.
seal_in_place_append_tag(algorithm, key_bytes, nonce, aad, plaintext) ==
    LET s == StreamSeed(algorithm, key_bytes, nonce)
        ct == [i \in 1..Len(plaintext) |->
                  (plaintext[i] + s * 7 + i * 11) % 256]
    IN  ct \o AeadTag(algorithm, key_bytes, nonce, aad, ct)

\* OpeningKey::open_in_place: <<plaintext>> when the tag is the one of
\* (key, nonce, aad, ciphertext), <<>> (Unspecified) otherwise.
open_in_place(algorithm, key_bytes, nonce, aad, data) ==
    IF Len(data) < TAG_LEN THEN <<>>
    ELSE LET n == Len(data) - TAG_LEN
             ct == SubSeq(data, 1, n)
             tag == SubSeq(data, n + 1, Len(data))
             s == StreamSeed(algorithm, key_bytes, nonce)
         IN  IF tag # AeadTag(algorithm, key_bytes, nonce, aad, ct) THEN <<>>
             ELSE <<[i \in 1..n |-> (ct[i] + 256 - ((s * 7 + i * 11) % 256)) % 256]>>

\* ring::pbkdf2::derive with PBKDF2_HMAC_SHA256: n bytes that depend on the
\* salt, the password and the iteration count only.
pbkdf2_derive(iterations, salt, password, n) ==
    LET all == <<iterations[1] \div 256, iterations[1] % 256,
                 iterations[2] \div 256, iterations[2] % 256, Len(salt)>>
               \o salt \o password
        d == Digest(all, 1, Len(all))
    IN  [i \in 1..n |-> (d + i * 29) % 256]

\* ------------------------------------------------------------ CryptoKey

\* struct CryptoKey
CryptoKey(key, algorithm) == [algorithm |-> algorithm, key |-> key]

\* What a constructor returns: Ok with the key, or an error without one.
KeyResult(status, key) == [status |-> status, key |-> key]

\* Mutant of CryptoKey_new: the length of the material is not checked.
CryptoKey_new_unchecked(key, algorithm) ==
    KeyResult("Ok", <<CryptoKey(key, algorithm)>>)

\* CryptoKey::new
CryptoKey_new(key, algorithm) ==
    IF Len(key) # Algorithm_key_size(algorithm)
    THEN KeyResult("InvalidKeyLength", <<>>)
    ELSE KeyResult("Ok", <<CryptoKey(key, algorithm)>>)

\* CryptoKey::generate; draw is what the random source answers.
CryptoKey_generate(algorithm, draw) ==
    IF draw = 0
    THEN KeyResult("RandomGenerationFailed", <<>>)
    ELSE KeyResult("Ok", <<CryptoKey(Fill(draw, Algorithm_key_size(algorithm)),
                                     algorithm)>>)

\* Mutant of derive_from_password: the iteration count is narrowed to 16
\* bits before it is tested for zero.
derive_from_password_u16(password, salt, iterations, algorithm) ==
    IF iterations[2] = 0
    THEN KeyResult("KeyDerivationFailed", <<>>)
    ELSE KeyResult("Ok",
             <<CryptoKey(pbkdf2_derive(iterations, salt, password,
                                       Algorithm_key_size(algorithm)),
                         algorithm)>>)

\* CryptoKey::derive_from_password; NonZeroU32::new(iterations) is None for
\* zero only.
derive_from_password(password, salt, iterations, algorithm) ==
    IF iterations = U32(0)
    THEN KeyResult("KeyDerivationFailed", <<>>)
    ELSE KeyResult("Ok",
             <<CryptoKey(pbkdf2_derive(iterations, salt, password,
                                       Algorithm_key_size(algorithm)),
                         algorithm)>>)

\* NonceGenerator::generate: <<nonce>>, or <<>> when the random source fails.
NonceGenerator_generate(size, draw) ==
    IF draw = 0 THEN <<>> ELSE <<Fill(draw, size)>>

\* ------------------------------------------------------ encrypt, decrypt

\* What encrypt and decrypt return: the bytes on Ok, and the nonce that was
\* handed to the sealing or the opening key (none when it did not get there).
CryptoResult(status, output, nonce) ==
    [status |-> status, output |-> output, nonce |-> nonce]

\* Mutant of encrypt: the associated data is not handed to the sealing key.
encrypt_drops_aad(key, plaintext, additional_data, draw) ==
    IF ~UnboundKey_new(key.algorithm, key.key)
    THEN CryptoResult("EncryptionFailed", <<>>, <<>>)
    ELSE LET g == NonceGenerator_generate(nonce_size(key.algorithm), draw) IN
        IF g = <<>> THEN CryptoResult("RandomGenerationFailed", <<>>, <<>>)
        ELSE IF ~try_assume_unique_for_key(g[1])
        THEN CryptoResult("EncryptionFailed", <<>>, <<>>)
        ELSE CryptoResult("Ok",
                 <<g[1] \o seal_in_place_append_tag(key.algorithm, key.key,
                                                    g[1], <<>>, plaintext)>>,
                 g)

\* Mutant of encrypt: the nonce is written after the sealed bytes.
encrypt_nonce_last(key, plaintext, additional_data, draw) ==
    IF ~UnboundKey_new(key.algorithm, key.key)
    THEN CryptoResult("EncryptionFailed", <<>>, <<>>)
    ELSE LET g == NonceGenerator_generate(nonce_size(key.algorithm), draw) IN
        IF g = <<>> THEN CryptoResult("RandomGenerationFailed", <<>>, <<>>)
        ELSE IF ~try_assume_unique_for_key(g[1])
        THEN CryptoResult("EncryptionFailed", <<>>, <<>>)
        ELSE CryptoResult("Ok",
                 <<seal_in_place_append_tag(key.algorithm, key.key, g[1],
                                            additional_data, plaintext)
                   \o g[1]>>,
                 g)

\* encrypt: nonce || sealed, with a nonce drawn for this call.
encrypt(key, plaintext, additional_data, draw) ==
    IF ~UnboundKey_new(key.algorithm, key.key)
    THEN CryptoResult("EncryptionFailed", <<>>, <<>>)
    ELSE LET g == NonceGenerator_generate(nonce_size(key.algorithm), draw) IN
        IF g = <<>> THEN CryptoResult("RandomGenerationFailed", <<>>, <<>>)
        ELSE IF ~try_assume_unique_for_key(g[1])
        THEN CryptoResult("EncryptionFailed", <<>>, <<>>)
        ELSE CryptoResult("Ok",
                 <<g[1] \o seal_in_place_append_tag(key.algorithm, key.key,
                                                    g[1], additional_data,
                                                    plaintext)>>,
                 g)

\* decrypt after its length check: the input is split at nonce_size and the
\* rest is opened.  `&ciphertext[..nonce_size]` panics on a shorter input.
decrypt_split(key, ciphertext, additional_data) ==
    LET ns == nonce_size(key.algorithm)
    IN  IF ns > Len(ciphertext)
        THEN CryptoResult("panic", <<>>, <<>>)
        ELSE IF ~UnboundKey_new(key.algorithm, key.key)
        THEN CryptoResult("DecryptionFailed", <<>>, <<>>)
        ELSE LET nonce_bytes == SubSeq(ciphertext, 1, ns)
                 ciphertext_data == SubSeq(ciphertext, ns + 1, Len(ciphertext))
             IN  IF ~try_assume_unique_for_key(nonce_bytes)
                 THEN CryptoResult("DecryptionFailed", <<>>, <<nonce_bytes>>)
                 ELSE LET opened == open_in_place(key.algorithm, key.key,
                                                    nonce_bytes, additional_data,
                                                    ciphertext_data) IN
                     IF opened = <<>>
                     THEN CryptoResult("DecryptionFailed", <<>>, <<nonce_bytes>>)
                     ELSE CryptoResult("Ok", opened, <<nonce_bytes>>)

\* Mutant of decrypt: an input of exactly nonce_size + tag_size bytes is
\* refused as too short.
decrypt_refuses_minimum(key, ciphertext, additional_data) ==
    IF Len(ciphertext) <= nonce_size(key.algorithm) + tag_size(key.algorithm)
    THEN CryptoResult("DecryptionFailed", <<>>, <<>>)
    ELSE decrypt_split(key, ciphertext, additional_data)

\* Mutant of decrypt: the length check is missing.
decrypt_unchecked(key, ciphertext, additional_data) ==
    decrypt_split(key, ciphertext, additional_data)

\* decrypt
decrypt(key, ciphertext, additional_data) ==
    IF Len(ciphertext) < nonce_size(key.algorithm) + tag_size(key.algorithm)
    THEN CryptoResult("DecryptionFailed", <<>>, <<>>)
    ELSE decrypt_split(key, ciphertext, additional_data)

\* -------------------------------------------------------- secure_compare

RECURSIVE BitXor(_, _)
\* a ^ b on u8
BitXor(a, b) ==
    IF a = 0 THEN b
    ELSE IF b = 0 THEN a
    ELSE ((a + b) % 2) + 2 * BitXor(a \div 2, b \div 2)

RECURSIVE BitOr(_, _)
\* a | b on u8
BitOr(a, b) ==
    IF a = 0 THEN b
    ELSE IF b = 0 THEN a
    ELSE (IF a % 2 = 1 \/ b % 2 = 1 THEN 1 ELSE 0)
         + 2 * BitOr(a \div 2, b \div 2)

\* What secure_compare returns, and how many byte pairs its loop looked at.
CompareResult(result, examined) == [result |-> result, examined |-> examined]

\* Mutant of secure_compare: the difference is assigned, not accumulated
\* (`result = a_byte ^ b_byte`), so the last byte pair alone decides.
secure_compare_assigns(a, b) ==
    IF Len(a) # Len(b) THEN CompareResult(FALSE, 0)
    ELSE IF Len(a) = 0 THEN CompareResult(TRUE, 0)
    ELSE CompareResult(BitXor(a[Len(a)], b[Len(b)]) = 0, Len(a))

RECURSIVE compare_loop(_, _, _, _)
\* The loop of secure_compare from pair i on: `result |= a_byte ^ b_byte`.
compare_loop(a, b, i, result) ==
    IF i > Len(a) THEN CompareResult(result = 0, i - 1)
    ELSE compare_loop(a, b, i + 1, BitOr(result, BitXor(a[i], b[i])))

\* secure_compare
secure_compare(a, b) ==
    IF Len(a) # Len(b) THEN CompareResult(FALSE, 0)
    ELSE compare_loop(a, b, 1, 0)

\* ------------------------------------------------- the calls of crypto.rs

\* Key material a caller hands to CryptoKey::new: too short, right, too long.
Materials == {CallerBytes(n) : n \in {0, 16, 31, 32, 33}}

Passwords == {<<112>>, <<112, 119>>}

Salts == {<<>>, <<115>>}

\* Iteration counts: zero, one, the default, 2^16 and u32::MAX.
IterationCounts == {U32(0), U32(1), U32(100000), U32(Limb), U32_MAX}

\* What the random source answers to a key request (0: it fails).
KeyDraws == 0..NumSeeds

\* What the random source answers to a nonce request (0: it fails).
NonceDraws == 0..MaxNonces

\* The keys a caller can hold: CryptoKey has private fields, so each one is
\* the result of a constructor.
CryptoKeys ==
    {r.key[1] : r \in {c \in {CryptoKey_new(m, a) : m \in Materials,
                                                   a \in Algorithm}
                             \cup {CryptoKey_generate("ChaCha20Poly1305", d) :
                                       d \in KeyDraws}
                             \cup {derive_from_password(<<112>>, <<115>>,
                                                        U32(1), "Aes256Gcm")} :
                          c.status = "Ok"}}

Plaintexts == {[i \in 1..n |-> 64 + i] : n \in 0..MaxPlain}

Aads == {<<>>, <<97>>, <<98>>}

\* Inputs of decrypt that are no output of encrypt: every length around
\* nonce_size and nonce_size + tag_size.
ForeignCiphertexts == {CallerBytes(n) : n \in {0, 11, 12, 27, 28}}

\* A constructor call and its result.
KeyCall(op, status, key, material, salt, iterations, algorithm, draw) ==
    [op |-> op, status |-> status, key |-> key, material |-> material,
     salt |-> salt, iterations |-> iterations, algorithm |-> algorithm,
     draw |-> draw]

\* An encrypt or decrypt call and its result.
CryptoCall(op, key, input, aad, draw, result) ==
    [op |-> op, status |-> result.status, key |-> key, input |-> input,
     aad |-> aad, draw |-> draw, output |-> result.output,
     nonce |-> result.nonce]

\* Nothing has been called yet; the key store plays no part.
InitCrypto ==
    /\ keychain = <<>>
    /\ now = 0
    /\ overflow_checks = FALSE
    /\ pure = {}
    /\ writes = 0
    /\ calls = <<>>
    /\ files = <<>>
    /\ ret = KeyCall("none", "Ok", <<>>, <<>>, <<>>, U32(0), "", 0)

CryptoKeyNew ==
    \E material \in Materials, algorithm \in Algorithm :
        \E r \in {CryptoKey_new(material, algorithm)} :
            /\ ret' = KeyCall("new", r.status, r.key, material, <<>>, U32(0),
                              algorithm, 0)
            /\ UNCHANGED <<calls, files, keychain, now, overflow_checks, pure, writes>>

CryptoKeyGenerate ==
    \E algorithm \in Algorithm, draw \in KeyDraws :
        \E r \in {CryptoKey_generate(algorithm, draw)} :
            /\ ret' = KeyCall("generate", r.status, r.key, <<>>, <<>>, U32(0),
                              algorithm, draw)
            /\ UNCHANGED <<calls, files, keychain, now, overflow_checks, pure, writes>>

DeriveFromPassword ==
    \E password \in Passwords, salt \in Salts, iterations \in IterationCounts,
       algorithm \in Algorithm :
        \E r \in {derive_from_password(password, salt, iterations, algorithm)} :
            /\ ret' = KeyCall("derive_from_password", r.status, r.key, password,
                              salt, iterations, algorithm, 0)
            /\ UNCHANGED <<calls, files, keychain, now, overflow_checks, pure, writes>>

Encrypt ==
    \E key \in CryptoKeys, plaintext \in Plaintexts, aad \in Aads,
       draw \in NonceDraws :
        /\ ret' = CryptoCall("encrypt", key, plaintext, aad, draw,
                             encrypt(key, plaintext, aad, draw))
        /\ UNCHANGED <<calls, files, keychain, now, overflow_checks, pure, writes>>

\* decrypt of what the encrypt call before it returned.
DecryptOutput ==
    \E key \in CryptoKeys, aad \in Aads :
        /\ ret.op = "encrypt"
        /\ ret.status = "Ok"
        /\ ret' = CryptoCall("decrypt", key, ret.output[1], aad, 0,
                             decrypt(key, ret.output[1], aad))
        /\ UNCHANGED <<calls, files, keychain, now, overflow_checks, pure, writes>>

\* decrypt of bytes that came from somewhere else.
DecryptForeign ==
    \E key \in CryptoKeys, ciphertext \in ForeignCiphertexts, aad \in Aads :
        /\ ret' = CryptoCall("decrypt", key, ciphertext, aad, 0,
                             decrypt(key, ciphertext, aad))
        /\ UNCHANGED <<calls, files, keychain, now, overflow_checks, pure, writes>>

NextCrypto ==
    \/ CryptoKeyNew
    \/ CryptoKeyGenerate
    \/ DeriveFromPassword
    \/ Encrypt
    \/ DecryptOutput
    \/ DecryptForeign

SpecCrypto == InitCrypto /\ [][NextCrypto]_vars

\* --------------------------------------------- secure_compare on its own

CompareBytes == {0, 1, 255}

RECURSIVE SlicesOfLength(_)
SlicesOfLength(n) ==
    IF n = 0 THEN {<<>>}
    ELSE {Append(s, b) : s \in SlicesOfLength(n - 1), b \in CompareBytes}

Slices == UNION {SlicesOfLength(n) : n \in 0..MaxCompareLen}

CompareCall(a, b, r) ==
    [op |-> "secure_compare", a |-> a, b |-> b, result |-> r.result,
     examined |-> r.examined]

InitCompare ==
    /\ keychain = <<>>
    /\ now = 0
    /\ overflow_checks = FALSE
    /\ pure = {}
    /\ writes = 0
    /\ calls = <<>>
    /\ files = <<>>
    /\ ret = [op |-> "none"]

SecureCompare ==
    \E a \in Slices, b \in Slices :
        /\ ret' = CompareCall(a, b, secure_compare(a, b))
        /\ UNCHANGED <<calls, files, keychain, now, overflow_checks, pure, writes>>

NextCompare == SecureCompare

SpecCompare == InitCompare /\ [][NextCompare]_vars

\* ------------------------------------------------- claims on crypto.rs

\* The step is a decrypt of what the encrypt call before it returned.
DecryptsLastOutput ==
    /\ ret.op = "encrypt"
    /\ ret.status = "Ok"
    /\ ret'.op = "decrypt"
    /\ ret'.input = ret.output[1]

\* C11: for every algorithm, key, plaintext (the empty one too) and
\* associated data, decrypt(key, encrypt(key, plaintext, aad), aad) is Ok
\* and returns exactly the plaintext.
C11_AeadRoundTrip ==
    [][(DecryptsLastOutput /\ ret'.key = ret.key /\ ret'.aad = ret.aad) =>
        (ret'.status = "Ok" /\ ret'.output = <<ret.input>>)]_vars

\* An empty plaintext sealed under associated data has come back.
C11_Witness ==
    /\ ret.op = "decrypt"
    /\ ret.status = "Ok"
    /\ ret.output = << <<>> >>
    /\ ret.aad # <<>>
    /\ ret.key.algorithm = "ChaCha20Poly1305"

\* C12: decrypt(key', encrypt(key, p, aad), aad') returns a plaintext only
\* when key' has the material of key and aad' = aad; with another key or
\* other associated data it returns DecryptionFailed and no plaintext.
C12_WrongKeyOrAadFails ==
    [][DecryptsLastOutput =>
        /\ ret'.status = "Ok" =>
              (ret'.key.key = ret.key.key /\ ret'.aad = ret.aad)
        /\ (ret'.key.key # ret.key.key \/ ret'.aad # ret.aad) =>
              (ret'.status = "DecryptionFailed" /\ ret'.output = <<>>)]_vars

\* A sealed message was refused by the opening key.
C12_Witness ==
    /\ ret.op = "decrypt"
    /\ ret.status = "DecryptionFailed"
    /\ ret.nonce = <<Fill(1, 12)>>
    /\ ret.aad = <<98>>

\* C13: decrypt of an input shorter than nonce_size + tag_size = 28 bytes
\* (the empty input too) returns DecryptionFailed before the input is split,
\* and no decrypt call indexes past the end of its input.
C13_ShortInputFails ==
    ret.op = "decrypt" =>
        /\ nonce_size(ret.key.algorithm) + tag_size(ret.key.algorithm) = 28
        /\ ret.status # "panic"
        /\ Len(ret.input) < 28 =>
              (ret.status = "DecryptionFailed" /\ ret.nonce = <<>>)

\* An input of 11 bytes, shorter than a nonce, was refused.
C13_Witness ==
    /\ ret.op = "decrypt"
    /\ Len(ret.input) = 11
    /\ ret.status = "DecryptionFailed"

\* C14: the output of encrypt is nonce || sealed without a header: for a
\* plaintext of n bytes it has 12 + n + 16 bytes, its first 12 bytes are the
\* nonce the sealing key was given, the rest is what the sealing key wrote;
\* decrypt takes its nonce from exactly the first 12 bytes of its input.
C14_Envelope ==
    /\ (ret.op = "encrypt" /\ ret.status = "Ok") =>
          LET out == ret.output[1]
          IN  /\ Len(out) = 12 + Len(ret.input) + 16
              /\ SubSeq(out, 1, 12) = ret.nonce[1]
              /\ SubSeq(out, 13, Len(out)) =
                    seal_in_place_append_tag(ret.key.algorithm, ret.key.key,
                                             ret.nonce[1], ret.aad, ret.input)
    /\ (ret.op = "decrypt" /\ Len(ret.input) >= 28) =>
          ret.nonce = <<SubSeq(ret.input, 1, 12)>>

\* A plaintext of one byte was sealed.
C14_Witness ==
    /\ ret.op = "encrypt"
    /\ ret.status = "Ok"
    /\ Len(ret.input) = 1
    /\ Len(ret.output[1]) = 29

C16_KeyLength ==
    /\ \A k \in CryptoKeys : Len(k.key) = Algorithm_key_size(k.algorithm)
    /\ ret.op \in {"new", "generate", "derive_from_password"} =>
          /\ ret.status # "Ok" => ret.key = <<>>
          /\ ret.status = "Ok" =>
                /\ ret.key[1].algorithm = ret.algorithm
                /\ Len(ret.key[1].key) = Algorithm_key_size(ret.algorithm)
    /\ (ret.op = "new"
        /\ Len(ret.material) # Algorithm_key_size(ret.algorithm)) =>
          ret.status = "InvalidKeyLength"
    /\ ret.op \in {"encrypt", "decrypt"} =>
          Len(ret.key.key) = Algorithm_key_size(ret.key.algorithm)

\* CryptoKey::new refused 16 bytes for AES-256-GCM.
C16_Witness ==
    /\ ret.op = "new"
    /\ ret.algorithm = "Aes256Gcm"
    /\ Len(ret.material) = 16
    /\ ret.status = "InvalidKeyLength"

\* C17: derive_from_password returns KeyDerivationFailed exactly when
\* iterations = 0; for every count in [1, u32::MAX] it returns a key, and
\* that key is given by (password, salt, iterations, algorithm) alone.
C17_DeriveFromPassword ==
    ret.op = "derive_from_password" =>
        /\ ret.status = "KeyDerivationFailed" <=> ret.iterations = U32(0)
        /\ ret.iterations # U32(0) =>
              /\ ret.status = "Ok"
              /\ ret.key = <<CryptoKey(
                     pbkdf2_derive(ret.iterations, ret.salt, ret.material,
                                   Algorithm_key_size(ret.algorithm)),
                     ret.algorithm)>>

\* A key was derived with 2^16 iterations, and one with u32::MAX.
C17_Witness ==
    /\ ret.op = "derive_from_password"
    /\ ret.iterations \in {U32(Limb), U32_MAX}
    /\ ret.status = "Ok"
    /\ ret.salt # <<>>

\* C18: secure_compare(a, b) is true exactly when a and b are the same
\* byte sequence, for empty slices and slices of different lengths too; on
\* slices of equal length it looks at every byte pair.
C18_SecureCompare ==
    ret.op = "secure_compare" =>
        /\ ret.result <=> ret.a = ret.b
        /\ Len(ret.a) = Len(ret.b) => ret.examined = Len(ret.a)

\* Two slices that differ in their first byte only.
C18_Witness ==
    /\ ret.op = "secure_compare"
    /\ ret.a = <<0, 1>>
    /\ ret.b = <<255, 1>>
    /\ ~ret.result
    /\ ret.examined = 2

\* ====================================================== rust_core/config.rs
\* A configuration is read from a TOML file, validated, and written back.
\* Text is kept as a sequence of characters.

\* Largest number of [[device]] tables in a configuration.
MaxDevices == 2

UPPER ==
    <<"A", "B", "C", "D", "E", "F", "G", "H", "I", "J", "K", "L", "M",
      "N", "O", "P", "Q", "R", "S", "T", "U", "V", "W", "X", "Y", "Z">>

LOWER ==
    <<"a", "b", "c", "d", "e", "f", "g", "h", "i", "j", "k", "l", "m",
      "n", "o", "p", "q", "r", "s", "t", "u", "v", "w", "x", "y", "z">>

\* char::is_uppercase
is_uppercase(ch) == \E k \in 1..Len(UPPER) : UPPER[k] = ch

\* char::to_ascii_lowercase
to_ascii_lowercase(ch) ==
    IF is_uppercase(ch)
    THEN LOWER[CHOOSE k \in 1..Len(UPPER) : UPPER[k] = ch]
    ELSE ch

RECURSIVE snake_case(_, _)
\* serde's rename rule for a variant name, from character i on: a '_' goes
\* before every upper-case character but the first, and every character is
\* lowered.
snake_case(variant, i) ==
    IF i > Len(variant) THEN <<>>
    ELSE (IF i > 1 /\ is_uppercase(variant[i]) THEN <<"_">> ELSE <<>>)
         \o <<to_ascii_lowercase(variant[i])>>
         \o snake_case(variant, i + 1)

\* #[serde(rename_all = "kebab-case")]: the snake case name with '-' for '_'.
kebab_case(variant) ==
    LET snake == snake_case(variant, 1)
    IN  [k \in 1..Len(snake) |-> IF snake[k] = "_" THEN "-" ELSE snake[k]]

\* enum EncryptionAlgorithm
EncryptionAlgorithm == {"Aes256Gcm", "ChaCha20Poly1305"}

\* The identifier of a variant as it is written in the source.
VariantName(algorithm) ==
    IF algorithm = "Aes256Gcm"
    THEN <<"A", "e", "s", "2", "5", "6", "G", "c", "m">>
    ELSE <<"C", "h", "a", "C", "h", "a", "2", "0",
           "P", "o", "l", "y", "1", "3", "0", "5">>

\* The string of every variant under the rename rule.
VariantStrings ==
    [algorithm \in EncryptionAlgorithm |-> kebab_case(VariantName(algorithm))]

\* Serialize for EncryptionAlgorithm
serialize_algorithm(algorithm) == VariantStrings[algorithm]

\* Deserialize for EncryptionAlgorithm: <<variant>>, or <<>> for a string
\* that names no variant.
deserialize_algorithm(text) ==
    IF \E a \in EncryptionAlgorithm : serialize_algorithm(a) = text
    THEN <<CHOOSE a \in EncryptionAlgorithm : serialize_algorithm(a) = text>>
    ELSE <<>>

\* struct DeviceConfig: its id and the algorithm of its encryption table.
DeviceConfig(id, algorithm) == [algorithm |-> algorithm, id |-> id]

\* struct Config: the fields validate reads.
Config(device, path, compression_level, chunk_size_mb) ==
    [device |-> device, path |-> path,
     compression_level |-> compression_level,
     chunk_size_mb |-> chunk_size_mb]

\* ConfigError::ValidationError(message); detail is what the message quotes.
ValidationError(message, detail) ==
    [status |-> "ValidationError", message |-> message, detail |-> detail]

RECURSIVE first_duplicate(_, _, _)
\* The loop over self.device: <<id>> of the first device whose id the
\* HashSet holds already, <<>> when every insert succeeds.
first_duplicate(device, i, device_ids) ==
    IF i > Len(device) THEN <<>>
    ELSE IF device[i].id \in device_ids THEN <<device[i].id>>
    ELSE first_duplicate(device, i + 1, device_ids \cup {device[i].id})

\* Mutant of validate: the compression level is checked before the
\* device ids.
validate_level_first(config, path_exists) ==
    IF config.device = <<>>
    THEN ValidationError("At least one device must be configured", <<>>)
    ELSE IF ~path_exists
    THEN ValidationError("Source path does not exist", <<config.path>>)
    ELSE IF config.compression_level > 9
    THEN ValidationError("Compression level must be between 0-9", <<>>)
    ELSE IF first_duplicate(config.device, 1, {}) # <<>>
    THEN ValidationError("Duplicate device ID",
                         first_duplicate(config.device, 1, {}))
    ELSE IF config.chunk_size_mb = U32(0)
    THEN ValidationError("Chunk size must be greater than 0", <<>>)
    ELSE [status |-> "Ok", message |-> "", detail |-> <<>>]

\* Config::validate; path_exists is what self.source.path.exists() answers.
validate(config, path_exists) ==
    IF config.device = <<>>
    THEN ValidationError("At least one device must be configured", <<>>)
    ELSE IF ~path_exists
    THEN ValidationError("Source path does not exist", <<config.path>>)
    ELSE IF first_duplicate(config.device, 1, {}) # <<>>
    THEN ValidationError("Duplicate device ID",
                         first_duplicate(config.device, 1, {}))
    ELSE IF config.compression_level > 9
    THEN ValidationError("Compression level must be between 0-9", <<>>)
    ELSE IF config.chunk_size_mb = U32(0)
    THEN ValidationError("Chunk size must be greater than 0", <<>>)
    ELSE [status |-> "Ok", message |-> "", detail |-> <<>>]

\* toml::to_string_pretty: the document, with every algorithm as its string.
to_string_pretty(config) ==
    [config EXCEPT !.device =
        [k \in 1..Len(config.device) |->
            DeviceConfig(config.device[k].id,
                         serialize_algorithm(config.device[k].algorithm))]]

\* toml::from_str: <<config>>, or <<>> (ParseError) when a device names an
\* algorithm string that is no variant.
from_str(contents) ==
    IF \E k \in 1..Len(contents.device) :
           deserialize_algorithm(contents.device[k].algorithm) = <<>>
    THEN <<>>
    ELSE <<[contents EXCEPT !.device =
              [k \in 1..Len(contents.device) |->
                  DeviceConfig(contents.device[k].id,
                      deserialize_algorithm(contents.device[k].algorithm)[1])]]>>

\* Config::from_file; file is <<>> when it cannot be read.
from_file(file, path_exists) ==
    IF file = <<>> THEN [status |-> "ReadError", config |-> <<>>]
    ELSE IF from_str(file[1]) = <<>>
    THEN [status |-> "ParseError", config |-> <<>>]
    ELSE IF validate(from_str(file[1])[1], path_exists).status # "Ok"
    THEN [status |-> "ValidationError", config |-> <<>>]
    ELSE [status |-> "Ok", config |-> from_str(file[1])]

\* Config::save: what is written to the file.
save(config) == [status |-> "Ok", file |-> <<to_string_pretty(config)>>]

\* ---------------------------------------------- configurations under check
ConfigDeviceIds == {"USB001", "USB002"}

RECURSIVE IdListsOfLength(_)
IdListsOfLength(n) ==
    IF n = 0 THEN {<<>>}
    ELSE {<<id>> \o rest : id \in ConfigDeviceIds, rest \in IdListsOfLength(n - 1)}

\* The ids of the [[device]] tables of a configuration, in file order.
DeviceIdLists == UNION {IdListsOfLength(n) : n \in 0..MaxDevices}

\* policy.compression_level is a u8.
CompressionLevels == {0, 9, 10, 255}

\* policy.chunk_size_mb is a u32.
ChunkSizes == {U32(0), U32(1), U32(Limb)}

\* The algorithm strings a configuration file may carry.
AlgorithmTexts ==
    {<<"a", "e", "s", "-", "2", "5", "6", "-", "g", "c", "m">>,
     <<"a", "e", "s", "2", "5", "6", "-", "g", "c", "m">>,
     <<"c", "h", "a", "c", "h", "a", "2", "0", "-",
       "p", "o", "l", "y", "1", "3", "0", "5">>,
     <<"c", "h", "a", "-", "c", "h", "a", "2", "0", "-",
       "p", "o", "l", "y", "1", "3", "0", "5">>,
     <<"A", "e", "s", "2", "5", "6", "G", "c", "m">>}

\* A configuration whose devices all use one algorithm (a variant, or in a
\* file its string).
ConfigOf(ids, algorithm, compression_level, chunk_size_mb) ==
    Config([k \in 1..Len(ids) |-> DeviceConfig(ids[k], algorithm)],
           "/tmp", compression_level, chunk_size_mb)

\* The last call: its operation, what it was given and what it answered.
ConfigCall(op, config, file, path_exists, status, message, detail, out) ==
    [op |-> op, config |-> config, file |-> file,
     path_exists |-> path_exists, status |-> status, message |-> message,
     detail |-> detail, out |-> out]

InitConfig ==
    /\ keychain = <<>>
    /\ now = 0
    /\ overflow_checks = FALSE
    /\ pure = {}
    /\ writes = 0
    /\ calls = <<>>
    /\ files = <<>>
    /\ ret = ConfigCall("none", <<>>, <<>>, FALSE, "Ok", "", <<>>, <<>>)

\* config.validate()
Validate ==
    /\ \E ids \in DeviceIdLists, compression_level \in CompressionLevels,
          chunk_size_mb \in ChunkSizes, path_exists \in BOOLEAN :
          LET config == ConfigOf(ids, "Aes256Gcm", compression_level,
                                 chunk_size_mb)
              r == validate(config, path_exists)
          IN  ret' = ConfigCall("validate", <<config>>, <<>>, path_exists,
                                r.status, r.message, r.detail, <<>>)
    /\ UNCHANGED <<calls, files, keychain, now, overflow_checks, pure, writes>>

\* config.save(path)
Save ==
    /\ \E ids \in DeviceIdLists, algorithm \in EncryptionAlgorithm :
          LET config == ConfigOf(ids, algorithm, 3, U32(1))
              r == save(config)
          IN  ret' = ConfigCall("save", <<config>>, <<>>, TRUE,
                                r.status, "", <<>>, r.file)
    /\ UNCHANGED <<calls, files, keychain, now, overflow_checks, pure, writes>>

\* Config::from_file(path) on a file written by hand, or on no file.
FromFile ==
    /\ \E file \in {<<>>} \cup
                   {<<ConfigOf(ids, text, 3, U32(1))>> :
                       ids \in DeviceIdLists, text \in AlgorithmTexts},
          path_exists \in BOOLEAN :
          LET r == from_file(file, path_exists)
          IN  ret' = ConfigCall("from_file", <<>>, file, path_exists,
                                r.status, "", <<>>, r.config)
    /\ UNCHANGED <<calls, files, keychain, now, overflow_checks, pure, writes>>

\* Config::from_file(path) on the file the last save wrote.
FromSavedFile ==
    /\ ret.op = "save"
    /\ ret.status = "Ok"
    /\ \E path_exists \in BOOLEAN :
          LET r == from_file(ret.out, path_exists)
          IN  ret' = ConfigCall("from_file", ret.config, ret.out,
                                path_exists, r.status, "", <<>>, r.config)
    /\ UNCHANGED <<calls, files, keychain, now, overflow_checks, pure, writes>>

NextConfig ==
    \/ Validate
    \/ Save
    \/ FromFile
    \/ FromSavedFile

SpecConfig == InitConfig /\ [][NextConfig]_vars

\* ------------------------------------------------------------------- C19
\* The checks of validate, in the order the claim gives them, as facts
\* about the configuration.
ViolatedChecks(config, path_exists) ==
    <<config.device = <<>>,
      ~path_exists,
      \E i, j \in 1..Len(config.device) :
          i # j /\ config.device[i].id = config.device[j].id,
      config.compression_level > 9,
      config.chunk_size_mb = U32(0)>>

CheckMessages ==
    <<"At least one device must be configured",
      "Source path does not exist",
      "Duplicate device ID",
      "Compression level must be between 0-9",
      "Chunk size must be greater than 0">>

\* C19: Config::validate checks, in this order, that there is a device, that
\* the source path exists, that no device id occurs twice, that the
\* compression level is at most 9 and that the chunk size is not 0. It
\* answers Ok only when no check is violated, and otherwise the
\* ValidationError of the first violated check.
C19_ValidateOrder ==
    ret.op = "validate" =>
        LET v == ViolatedChecks(ret.config[1], ret.path_exists)
        IN  /\ ret.status = "Ok" <=> \A k \in 1..5 : ~v[k]
            /\ \A k \in 1..5 :
                   (v[k] /\ \A h \in 1..(k - 1) : ~v[h]) =>
                       /\ ret.status = "ValidationError"
                       /\ ret.message = CheckMessages[k]

\* validate was given a configuration with a repeated id, a compression
\* level over 9 and a chunk size of 0, and reported the repeated id.
C19_Witness ==
    /\ ret.op = "validate"
    /\ ret.path_exists
    /\ Len(ret.config[1].device) = 2
    /\ ret.config[1].device[1].id = ret.config[1].device[2].id
    /\ ret.config[1].compression_level > 9
    /\ ret.config[1].chunk_size_mb = U32(0)
    /\ ret.message = "Duplicate device ID"
    /\ ret.detail = <<ret.config[1].device[1].id>>

C26_FiledUnderOwnId ==
    \A d \in DeviceIds :
        (HasEntry(keychain, d) /\ Stored(keychain, d) # <<>>) =>
            Stored(keychain, d)[1].metadata.device_id = d

\* ======================================================== rust_core/keys.rs
\* RSA and ECDSA key pairs: signing, verification, pre-hashed signing, and
\* ECDH key agreement.  The primitives of the rsa, ring, sha2 and p256/p384
\* crates are taken by their contracts over small groups and short digests:
\* a signature verifies under a public key exactly when the private key of
\* that public key made it over the same digest.

\* Largest number of different key pairs the random source hands out.
MaxKeyPairs == 2

\* enum AsymmetricAlgorithm
AsymmetricAlgorithm == {"Rsa2048", "Rsa4096", "EcdsaP256", "EcdsaP384"}

IsRsa(algorithm) == algorithm \in {"Rsa2048", "Rsa4096"}

\* The three bytes of a digest value.
DigestBytes(d) == <<d \div 65536, (d \div 256) % 256, d % 256>>

\* sha2::Sha256
Sha256(data) == DigestBytes(Digest(<<1>> \o data, 1, Len(data) + 1))

\* sha2::Sha384: a longer digest than Sha256.
Sha384(data) ==
    LET d == Digest(<<2>> \o data, 1, Len(data) + 1)
    IN  DigestBytes(d) \o <<(d * 3 + 1) % 256>>

\* ---------------------------------------------------------------- RSA
\* Bytes of a modulus: RsaPrivateKey::new(rng, 2048) and (rng, 4096).
RsaSize(algorithm) == IF algorithm = "Rsa2048" THEN 3 ELSE 4

\* The public modulus of the key pair with a given secret.
RsaModulus(secret) == (secret * 37 + 11) % 256

\* to_pkcs8_der of a private key
RsaPkcs8(size, secret) == <<48, 130, size, secret>>

\* to_public_key_der of its public key
RsaSpki(size, secret) == <<48, 129, size, RsaModulus(secret)>>

\* RsaPrivateKey::from_pkcs8_der: <<[size, secret]>>, or <<>> for bytes
\* that are no RSA private key.
RsaPrivateKey_from_pkcs8_der(bytes) ==
    IF Len(bytes) = 4 /\ bytes[1] = 48 /\ bytes[2] = 130
    THEN <<[size |-> bytes[3], secret |-> bytes[4]]>>
    ELSE <<>>

\* RsaPublicKey::from_public_key_der: <<[size, modulus]>> or <<>>.
RsaPublicKey_from_public_key_der(bytes) ==
    IF Len(bytes) = 4 /\ bytes[1] = 48 /\ bytes[2] = 129
    THEN <<[size |-> bytes[3], modulus |-> bytes[4]]>>
    ELSE <<>>

\* RSASSA-PKCS1-v1_5 without a DigestInfo prefix: the signature of a digest
\* is a function of the private key and the digest (the random source only
\* blinds the computation), as long as the modulus.
RsaSign(size, secret, hashed) ==
    LET d == Digest(<<3, size, secret>> \o hashed, 1, Len(hashed) + 3)
    IN  [j \in 1..size |->
            IF j <= 3 THEN DigestBytes(d)[j] ELSE (d * 5 + j) % 256]

\* pkcs1v15::Signature::try_from(&[u8]) takes any bytes.
RsaSignature_try_from(signature) == <<signature>>

\* Verification of a digest: the signature has the length of the modulus
\* and is the one the private key of this modulus makes of the digest.
RsaVerify(public, hashed, signature) ==
    /\ Len(signature) = public.size
    /\ \E secret \in 1..MaxKeyPairs :
          /\ RsaModulus(secret) = public.modulus
          /\ signature = RsaSign(public.size, secret, hashed)

\* -------------------------------------------------------------- ECDSA
\* The group of a curve: its prime and its generator.
CurvePrime(algorithm) == IF algorithm = "EcdsaP256" THEN 251 ELSE 241

CurveGenerator(algorithm) == IF algorithm = "EcdsaP256" THEN 6 ELSE 7

\* Bytes of a coordinate.
CoordinateSize(algorithm) == IF algorithm = "EcdsaP256" THEN 1 ELSE 2

CurveId(algorithm) == IF algorithm = "EcdsaP256" THEN 7 ELSE 34

RECURSIVE ModExp(_, _, _)
\* base^exponent mod modulus
ModExp(base, exponent, modulus) ==
    IF exponent = 0 THEN 1
    ELSE (base * ModExp(base, exponent - 1, modulus)) % modulus

\* A coordinate as big-endian bytes.
Coordinate(algorithm, x) ==
    IF CoordinateSize(algorithm) = 1 THEN <<x>> ELSE <<0, x>>

\* The public point of a private scalar, in uncompressed SEC1 form.
PublicPoint(algorithm, scalar) ==
    <<4>> \o Coordinate(algorithm,
                        ModExp(CurveGenerator(algorithm), scalar,
                               CurvePrime(algorithm)))

\* EcdsaKeyPair::generate_pkcs8: the document holds the curve, the private
\* scalar and the public point.
EcdsaPkcs8(algorithm, scalar) ==
    <<48, CurveId(algorithm), scalar>> \o PublicPoint(algorithm, scalar)

\* EcdsaKeyPair::from_pkcs8(alg, bytes) and SecretKey::from_pkcs8_der for
\* the curve of alg: <<scalar>>, or <<>> for bytes that are no private key
\* of that curve.
EcdsaFromPkcs8(algorithm, bytes) ==
    IF /\ Len(bytes) >= 3
       /\ bytes[1] = 48
       /\ bytes[2] = CurveId(algorithm)
       /\ bytes[3] \in 1..MaxKeyPairs
       /\ bytes = EcdsaPkcs8(algorithm, bytes[3])
    THEN <<bytes[3]>>
    ELSE <<>>

\* PublicKey::from_sec1_bytes for the curve of alg: <<x>>, or <<>> for
\* bytes that are no point of the curve.
from_sec1_bytes(algorithm, bytes) ==
    IF /\ Len(bytes) = 1 + CoordinateSize(algorithm)
       /\ bytes[1] = 4
       /\ \A j \in 2..(Len(bytes) - 1) : bytes[j] = 0
       /\ bytes[Len(bytes)] \in 1..(CurvePrime(algorithm) - 1)
    THEN <<bytes[Len(bytes)]>>
    ELSE <<>>

\* The hash an ECDSA algorithm of ring applies to the message.
EcdsaHash(algorithm, data) ==
    IF algorithm = "EcdsaP256" THEN Sha256(data) ELSE Sha384(data)

\* The s part of a signature: bound to the private scalar, the digest of
\* the message and the r part.
EcdsaS(algorithm, scalar, hashed, r) ==
    LET d == Digest(<<4, CurveId(algorithm), scalar, r>> \o hashed,
                    1, Len(hashed) + 4)
    IN  <<(d \div 256) % 256, d % 256>>

\* EcdsaKeyPair::sign with the ASN.1 encoding: SEQUENCE { r, s }, r coming
\* from the per-signature random value.
EcdsaSign(algorithm, scalar, data, draw) ==
    LET r == (draw * 17 + 3) % 256
    IN  <<48, 3, r>> \o EcdsaS(algorithm, scalar, EcdsaHash(algorithm, data), r)

\* UnparsedPublicKey::new(alg, public_key).verify(data, signature): the
\* point and the encoding parse, and s is the one the private scalar of
\* this point makes of the digest and r.
EcdsaVerify(algorithm, public_key, data, signature) ==
    /\ from_sec1_bytes(algorithm, public_key) # <<>>
    /\ Len(signature) = 5
    /\ signature[1] = 48
    /\ signature[2] = 3
    /\ \E scalar \in 1..MaxKeyPairs :
          /\ PublicPoint(algorithm, scalar) = public_key
          /\ <<signature[4], signature[5]>> =
                 EcdsaS(algorithm, scalar, EcdsaHash(algorithm, data),
                        signature[3])

\* diffie_hellman(secret, peer).raw_secret_bytes()
diffie_hellman(algorithm, scalar, peer) ==
    Coordinate(algorithm, ModExp(peer, scalar, CurvePrime(algorithm)))

\* ------------------------------------------------------- AsymmetricKey
\* struct AsymmetricKey
AsymmetricKey(algorithm, private_key, public_key) ==
    [algorithm |-> algorithm, private_key |-> private_key,
     public_key |-> public_key]

\* Result<AsymmetricKey, KeyError>
AsymResult(status, key) == [status |-> status, key |-> key]

\* AsymmetricKey::generate_rsa; draw 0 is a failure of the random source.
generate_rsa(algorithm, draw) ==
    IF draw = 0 THEN AsymResult("GenerationFailed", <<>>)
    ELSE AsymResult("Ok",
             <<AsymmetricKey(algorithm,
                             RsaPkcs8(RsaSize(algorithm), draw),
                             RsaSpki(RsaSize(algorithm), draw))>>)

\* AsymmetricKey::generate_ecdsa
generate_ecdsa(algorithm, draw) ==
    IF draw = 0 THEN AsymResult("GenerationFailed", <<>>)
    ELSE IF EcdsaFromPkcs8(algorithm, EcdsaPkcs8(algorithm, draw)) = <<>>
    THEN AsymResult("ParsingFailed", <<>>)
    ELSE AsymResult("Ok",
             <<AsymmetricKey(algorithm, EcdsaPkcs8(algorithm, draw),
                             PublicPoint(algorithm, draw))>>)

\* AsymmetricKey::generate
AsymmetricKey_generate(algorithm, draw) ==
    IF IsRsa(algorithm) THEN generate_rsa(algorithm, draw)
    ELSE generate_ecdsa(algorithm, draw)

\* Result<Vec<u8>, KeyError>
BytesResult(status, bytes) == [status |-> status, bytes |-> bytes]

\* The digest the RSA signing and verifying keys of an algorithm apply:
\* SigningKey::<Sha256> for RSA-2048, SigningKey::<Sha384> for RSA-4096.
RsaHash(algorithm, data) ==
    IF algorithm = "Rsa2048" THEN Sha256(data) ELSE Sha384(data)

\* AsymmetricKey::sign; draw is what the random source gives an ECDSA
\* signature (0: it fails).
sign(key, data, draw) ==
    IF IsRsa(key.algorithm)
    THEN LET private_key == RsaPrivateKey_from_pkcs8_der(key.private_key)
         IN  IF private_key = <<>> THEN BytesResult("InvalidFormat", <<>>)
             ELSE BytesResult("Ok",
                      RsaSign(private_key[1].size, private_key[1].secret,
                              RsaHash(key.algorithm, data)))
    ELSE LET key_pair == EcdsaFromPkcs8(key.algorithm, key.private_key)
         IN  IF key_pair = <<>> THEN BytesResult("ParsingFailed", <<>>)
             ELSE IF draw = 0 THEN BytesResult("GenerationFailed", <<>>)
             ELSE BytesResult("Ok", EcdsaSign(key.algorithm, key_pair[1],
                                              data, draw))

\* Mutant of verify: every RSA key is verified with SHA-256.
verify_sha256_only(key, data, signature) ==
    IF IsRsa(key.algorithm)
    THEN LET public_key == RsaPublicKey_from_public_key_der(key.public_key)
         IN  IF public_key = <<>> THEN "InvalidFormat"
             ELSE IF RsaVerify(public_key[1], Sha256(data), signature)
             THEN "Ok"
             ELSE "VerificationFailed"
    ELSE IF EcdsaVerify(key.algorithm, key.public_key, data, signature)
    THEN "Ok"
    ELSE "VerificationFailed"

\* AsymmetricKey::verify: the status it returns.
verify(key, data, signature) ==
    IF IsRsa(key.algorithm)
    THEN LET public_key == RsaPublicKey_from_public_key_der(key.public_key)
         IN  IF public_key = <<>> THEN "InvalidFormat"
             ELSE IF RsaSignature_try_from(signature) = <<>>
             THEN IF key.algorithm = "Rsa2048" THEN "InvalidFormat"
                  ELSE "VerificationFailed"
             ELSE IF RsaVerify(public_key[1], RsaHash(key.algorithm, data),
                               RsaSignature_try_from(signature)[1])
             THEN "Ok"
             ELSE "VerificationFailed"
    ELSE IF EcdsaVerify(key.algorithm, key.public_key, data, signature)
    THEN "Ok"
    ELSE "VerificationFailed"

\* AsymmetricKey::compute_hash
compute_hash(key, data) ==
    IF key.algorithm \in {"Rsa2048", "EcdsaP256"} THEN Sha256(data)
    ELSE Sha384(data)

\* Mutant of sign_hash: every algorithm falls back to sign.
sign_hash_rehashes(key, hash, draw) == sign(key, hash, draw)

\* AsymmetricKey::sign_hash
sign_hash(key, hash, draw) ==
    IF IsRsa(key.algorithm)
    THEN LET private_key == RsaPrivateKey_from_pkcs8_der(key.private_key)
         IN  IF private_key = <<>> THEN BytesResult("InvalidFormat", <<>>)
             ELSE BytesResult("Ok",
                      RsaSign(private_key[1].size, private_key[1].secret,
                              hash))
    ELSE sign(key, hash, draw)

\* AsymmetricKey::verify_hash
verify_hash(key, hash, signature) ==
    IF IsRsa(key.algorithm)
    THEN LET public_key == RsaPublicKey_from_public_key_der(key.public_key)
         IN  IF public_key = <<>> THEN "InvalidFormat"
             ELSE IF RsaSignature_try_from(signature) = <<>>
             THEN "InvalidFormat"
             ELSE IF RsaVerify(public_key[1], hash,
                               RsaSignature_try_from(signature)[1])
             THEN "Ok"
             ELSE "VerificationFailed"
    ELSE verify(key, hash, signature)

\* -------------------------------------------------------- KeyAgreement
\* struct KeyAgreement
KeyAgreement(algorithm, private_key) ==
    [algorithm |-> algorithm, private_key |-> private_key]

\* KeyAgreement::from_key: <<agreement>>, or <<>> (UnsupportedAlgorithm)
\* for an RSA key.
KeyAgreement_from_key(key) ==
    IF IsRsa(key.algorithm) THEN <<>>
    ELSE <<KeyAgreement(key.algorithm, key.private_key)>>

\* Mutant of agree: the secret is computed with a private scalar made for
\* the call, not with the one of the key given to from_key.
agree_ephemeral(self, peer_public_key) ==
    IF IsRsa(self.algorithm) THEN BytesResult("UnsupportedAlgorithm", <<>>)
    ELSE LET peer_public == from_sec1_bytes(self.algorithm, peer_public_key)
         IN  IF peer_public = <<>> THEN BytesResult("InvalidFormat", <<>>)
             ELSE BytesResult("Ok",
                      diffie_hellman(self.algorithm,
                                     5, peer_public[1]))

\* KeyAgreement::agree
agree(self, peer_public_key) ==
    IF IsRsa(self.algorithm) THEN BytesResult("UnsupportedAlgorithm", <<>>)
    ELSE LET secret_key == EcdsaFromPkcs8(self.algorithm, self.private_key)
             peer_public == from_sec1_bytes(self.algorithm, peer_public_key)
         IN  IF secret_key = <<>> THEN BytesResult("InvalidFormat", <<>>)
             ELSE IF peer_public = <<>>
             THEN BytesResult("InvalidFormat", <<>>)
             ELSE BytesResult("Ok", diffie_hellman(self.algorithm,
                                                   secret_key[1],
                                                   peer_public[1]))

\* ------------------------------------------------- key pairs under check
\* What the random source gives a key generation: 0 is a failure.
KeyPairDraws == 0..MaxKeyPairs

\* What the random source gives one ECDSA signature: 0 is a failure.
SignDraws == {0, 1}

\* The key pair generate(algorithm) returns on a draw that succeeds.
KeyPair(algorithm, draw) == AsymmetricKey_generate(algorithm, draw).key[1]

Messages == {<<>>, <<109>>}

\* What a caller signs or verifies with a key: a message, or the hash
\* compute_hash gives of one.
SignData(key) == Messages \cup {compute_hash(key, data) : data \in Messages}

\* The bytes with bit number n (from 1) changed.
FlipBit(bytes, n) ==
    [bytes EXCEPT ![((n - 1) \div 8) + 1] =
        BitXor(@, 2 ^ ((n - 1) % 8))]

\* The last call.  signed is the sign or sign_hash call whose signature a
\* verification was given, flipped the number of the bit changed in that
\* signature before (0: none).
AsymCall(op, key, data, signature, status, signed, flipped) ==
    [op |-> op, key |-> key, data |-> data, signature |-> signature,
     status |-> status, signed |-> signed, flipped |-> flipped,
     peer |-> <<>>, shared |-> <<>>]

InitKeys ==
    /\ keychain = <<>>
    /\ now = 0
    /\ overflow_checks = FALSE
    /\ pure = {}
    /\ writes = 0
    /\ calls = <<>>
    /\ files = <<>>
    /\ ret = AsymCall("none", <<>>, <<>>, <<>>, "Ok", <<>>, 0)

\* AsymmetricKey::generate(algorithm)
AsymGenerate ==
    /\ \E algorithm \in AsymmetricAlgorithm, draw \in KeyPairDraws :
          LET r == AsymmetricKey_generate(algorithm, draw)
          IN  ret' = AsymCall("generate", r.key, <<>>, <<>>, r.status,
                              <<>>, 0)
    /\ UNCHANGED <<calls, files, keychain, now, overflow_checks, pure, writes>>

\* key.sign(data)
Sign ==
    /\ \E algorithm \in AsymmetricAlgorithm, k \in 1..MaxKeyPairs,
          draw \in SignDraws :
          LET key == KeyPair(algorithm, k)
          IN  \E data \in SignData(key) :
                  LET r == sign(key, data, draw)
                  IN  ret' = AsymCall("sign", <<key>>, data, r.bytes,
                                      r.status, <<>>, 0)
    /\ UNCHANGED <<calls, files, keychain, now, overflow_checks, pure, writes>>

\* key.sign_hash(hash)
SignHash ==
    /\ \E algorithm \in AsymmetricAlgorithm, k \in 1..MaxKeyPairs,
          draw \in SignDraws :
          LET key == KeyPair(algorithm, k)
          IN  \E hash \in SignData(key) :
                  LET r == sign_hash(key, hash, draw)
                  IN  ret' = AsymCall("sign_hash", <<key>>, hash, r.bytes,
                                      r.status, <<>>, 0)
    /\ UNCHANGED <<calls, files, keychain, now, overflow_checks, pure, writes>>

\* What verify_hash after a signing call is given: the signature as it was
\* returned, with any key pair of the algorithm and any data.
VerifyHashInputs ==
    {<<k, data, 0>> : k \in 1..MaxKeyPairs, data \in SignData(ret.key[1])}

\* What verify after a signing call is given: the same, or, with the
\* signing key and the signed data, the signature with one bit changed.
VerifyInputs ==
    VerifyHashInputs
    \cup {<<0, ret.data, n>> : n \in 1..(8 * Len(ret.signature))}

\* key.verify(data, signature) on the signature of the last signing call.
Verify ==
    /\ ret.op \in {"sign", "sign_hash"}
    /\ ret.status = "Ok"
    /\ \E in \in VerifyInputs :
          LET key == IF in[1] = 0 THEN ret.key[1]
                     ELSE KeyPair(ret.key[1].algorithm, in[1])
              signature == IF in[3] = 0 THEN ret.signature
                           ELSE FlipBit(ret.signature, in[3])
          IN  ret' = AsymCall("verify", <<key>>, in[2], signature,
                              verify(key, in[2], signature),
                              <<[op |-> ret.op, key |-> ret.key[1],
                                 data |-> ret.data,
                                 signature |-> ret.signature]>>, in[3])
    /\ UNCHANGED <<calls, files, keychain, now, overflow_checks, pure, writes>>

\* key.verify_hash(hash, signature) on the signature of the last signing
\* call.
VerifyHash ==
    /\ ret.op \in {"sign", "sign_hash"}
    /\ ret.status = "Ok"
    /\ \E in \in VerifyHashInputs :
          LET key == IF in[1] = 0 THEN ret.key[1]
                     ELSE KeyPair(ret.key[1].algorithm, in[1])
              signature == IF in[3] = 0 THEN ret.signature
                           ELSE FlipBit(ret.signature, in[3])
          IN  ret' = AsymCall("verify_hash", <<key>>, in[2], signature,
                              verify_hash(key, in[2], signature),
                              <<[op |-> ret.op, key |-> ret.key[1],
                                 data |-> ret.data,
                                 signature |-> ret.signature]>>, in[3])
    /\ UNCHANGED <<calls, files, keychain, now, overflow_checks, pure, writes>>

\* KeyAgreement::from_key(&key)?.agree(peer.public_key_bytes())
Agree ==
    /\ \E algorithm \in AsymmetricAlgorithm, peer_algorithm \in
              AsymmetricAlgorithm, k \in 1..MaxKeyPairs,
          peer_k \in 1..MaxKeyPairs :
          LET key == KeyPair(algorithm, k)
              peer == KeyPair(peer_algorithm, peer_k)
              agreement == KeyAgreement_from_key(key)
              r == IF agreement = <<>>
                   THEN BytesResult("UnsupportedAlgorithm", <<>>)
                   ELSE agree(agreement[1], peer.public_key)
          IN  ret' = [AsymCall("agree", <<key>>, <<>>, <<>>, r.status,
                               <<>>, 0)
                         EXCEPT !.peer = <<peer>>, !.shared = r.bytes]
    /\ UNCHANGED <<calls, files, keychain, now, overflow_checks, pure, writes>>

NextKeys ==
    \/ AsymGenerate
    \/ Sign
    \/ SignHash
    \/ Verify
    \/ VerifyHash
    \/ Agree

SpecKeys == InitKeys /\ [][NextKeys]_vars

\* ------------------------------------------------------------------- C21
\* The verification was given the signature of a signing call of kind op,
\* by the key that signed.
VerifiesSigned(op) ==
    /\ ret.signed # <<>>
    /\ ret.signed[1].op = op
    /\ ret.key[1] = ret.signed[1].key

\* C21: for every asymmetric algorithm, generated key and message,
\* verify(msg, sign(msg)) returns Ok, and verify with a different message,
\* or with the signature changed in any single bit, returns
\* VerificationFailed.
C21_SignVerify ==
    (ret.op = "verify" /\ VerifiesSigned("sign")) =>
        /\ (ret.flipped = 0 /\ ret.data = ret.signed[1].data) =>
               ret.status = "Ok"
        /\ (ret.flipped = 0 /\ ret.data # ret.signed[1].data) =>
               ret.status = "VerificationFailed"
        /\ ret.flipped # 0 => ret.status = "VerificationFailed"

\* verify refused the signature of an RSA-2048 key over the signed message
\* because one bit of the signature was changed.
C21_Witness ==
    /\ ret.op = "verify"
    /\ VerifiesSigned("sign")
    /\ ret.key[1].algorithm = "Rsa2048"
    /\ ret.flipped # 0
    /\ ret.data = ret.signed[1].data
    /\ ret.status = "VerificationFailed"

\* ------------------------------------------------------------------- C22
\* C22: for two ECDSA keys A and B of one curve,
\* KeyAgreement::from_key(A).agree(B.public) succeeds and equals
\* KeyAgreement::from_key(B).agree(A.public): agree computes with the
\* private key of the key given to from_key.
C22_EcdhSymmetry ==
    (/\ ret.op = "agree"
     /\ ~IsRsa(ret.key[1].algorithm)
     /\ ret.peer[1].algorithm = ret.key[1].algorithm) =>
        /\ ret.status = "Ok"
        /\ ret.shared = agree(KeyAgreement_from_key(ret.peer[1])[1],
                              ret.key[1].public_key).bytes

\* Two different P-384 keys agreed on a secret.
C22_Witness ==
    /\ ret.op = "agree"
    /\ ret.key[1].algorithm = "EcdsaP384"
    /\ ret.peer[1].algorithm = "EcdsaP384"
    /\ ret.peer[1] # ret.key[1]
    /\ ret.status = "Ok"
    /\ ret.shared # <<>>

\* ------------------------------------------------------------------- C25
\* C25: with an ECDSA key sign_hash(h) and verify_hash(h, s) treat h as the
\* message, as sign and verify do, so verify(data,
\* sign_hash(compute_hash(data))) fails; with an RSA key sign_hash signs
\* the digest itself, so verify(data, sign_hash(compute_hash(data)))
\* returns Ok, and verify_hash(compute_hash(data), sign(data)) as well.
C25_PrehashAsymmetry ==
    /\ (/\ ret.op = "verify"
        /\ VerifiesSigned("sign_hash")
        /\ ret.flipped = 0
        /\ ret.signed[1].data = compute_hash(ret.key[1], ret.data)) =>
           ret.status = IF IsRsa(ret.key[1].algorithm) THEN "Ok"
                        ELSE "VerificationFailed"
    /\ (/\ ret.op = "verify_hash"
        /\ VerifiesSigned("sign")
        /\ ret.data = compute_hash(ret.key[1], ret.signed[1].data)) =>
           ret.status = IF IsRsa(ret.key[1].algorithm) THEN "Ok"
                        ELSE "VerificationFailed"
    /\ (/\ ret.op \in {"verify", "verify_hash"}
        /\ ret.signed # <<>>
        /\ ret.key[1] = ret.signed[1].key
        /\ ~IsRsa(ret.key[1].algorithm)
        /\ ret.flipped = 0) =>
           (ret.status = "Ok" <=> ret.data = ret.signed[1].data)
    /\ (/\ ret.op = "verify"
        /\ VerifiesSigned("sign_hash")
        /\ IsRsa(ret.key[1].algorithm)
        /\ ret.flipped = 0
        /\ ret.data = ret.signed[1].data) =>
           ret.status = "VerificationFailed"

\* verify refused, for the data, the signature a P-256 key made with
\* sign_hash of compute_hash(data).
C25_Witness ==
    /\ ret.op = "verify"
    /\ VerifiesSigned("sign_hash")
    /\ ret.key[1].algorithm = "EcdsaP256"
    /\ ret.flipped = 0
    /\ ret.signed[1].data = compute_hash(ret.key[1], ret.data)
    /\ ret.status = "VerificationFailed"

\* ================================================ crypto.rs: SingleUseNonce
\* A sealing or opening key is bound to a nonce sequence that it asks for a
\* nonce at every operation.

\* Largest number of operations tried on one sealing or opening key.
MaxAdvances == 3

\* struct SingleUseNonce
SingleUseNonce(nonce) == [nonce |-> nonce]

\* SingleUseNonce::new
SingleUseNonce_new(nonce) == SingleUseNonce(<<nonce>>)

\* Mutant of advance: the nonce is read and left in place.
advance_keeps(self) ==
    IF self.nonce = <<>>
    THEN [status |-> "Unspecified", nonce |-> <<>>, self |-> self]
    ELSE IF ~try_assume_unique_for_key(self.nonce[1])
    THEN [status |-> "Unspecified", nonce |-> <<>>, self |-> self]
    ELSE [status |-> "Ok", nonce |-> self.nonce, self |-> self]

\* <SingleUseNonce as NonceSequence>::advance: what it returns and what it
\* leaves of the sequence.
advance(self) ==
    IF self.nonce = <<>>
    THEN [status |-> "Unspecified", nonce |-> <<>>, self |-> self]
    ELSE IF ~try_assume_unique_for_key(self.nonce[1])
    THEN [status |-> "Unspecified", nonce |-> <<>>,
          self |-> SingleUseNonce(<<>>)]
    ELSE [status |-> "Ok", nonce |-> self.nonce,
          self |-> SingleUseNonce(<<>>)]

\* SealingKey::new / OpeningKey::new(unbound_key, nonce_sequence).  The
\* last two fields are not in the program: the nonce the sequence was built
\* from, and the number of operations asked of the key so far.
BoundKey(kind, key, nonce_sequence, built_from, advances) ==
    [kind |-> kind, key |-> key, nonce_sequence |-> nonce_sequence,
     built_from |-> built_from, advances |-> advances]

\* SealingKey::seal_in_place_append_tag on a bound key: the sequence is
\* advanced, and only with the nonce it gives is anything sealed.
BoundKey_seal(bound, aad, plaintext) ==
    LET a == advance(bound.nonce_sequence)
    IN  IF a.status # "Ok"
        THEN [status |-> "Unspecified", nonce |-> <<>>, output |-> <<>>,
              self |-> a.self]
        ELSE [status |-> "Ok", nonce |-> a.nonce,
              output |-> <<seal_in_place_append_tag(bound.key.algorithm,
                                                    bound.key.key, a.nonce[1],
                                                    aad, plaintext)>>,
              self |-> a.self]

\* OpeningKey::open_in_place on a bound key.
BoundKey_open(bound, aad, data) ==
    LET a == advance(bound.nonce_sequence)
    IN  IF a.status # "Ok"
        THEN [status |-> "Unspecified", nonce |-> <<>>, output |-> <<>>,
              self |-> a.self]
        ELSE LET opened == open_in_place(bound.key.algorithm, bound.key.key,
                                         a.nonce[1], aad, data)
             IN  [status |-> IF opened = <<>> THEN "Unspecified" ELSE "Ok",
                  nonce |-> a.nonce, output |-> opened, self |-> a.self]

\* The nonces a sequence is built from: what the generator returns for 12
\* bytes, and for comparison 11 and 13 bytes.
SequenceNonces ==
    {Fill(draw, NONCE_LEN) : draw \in 1..MaxNonces}
    \cup {Fill(1, NONCE_LEN - 1), Fill(1, NONCE_LEN + 1)}

\* The last operation on the bound key.
NonceCall(op, status, nonce, input, aad, output) ==
    [op |-> op, status |-> status, nonce |-> nonce, input |-> input,
     aad |-> aad, output |-> output]

InitNonce ==
    /\ keychain = <<>>
    /\ now = 0
    /\ overflow_checks = FALSE
    /\ pure = {}
    /\ writes = 0
    /\ calls = <<>>
    /\ files = <<>>
    /\ ret = NonceCall("none", "Ok", <<>>, <<>>, <<>>, <<>>)

\* SealingKey::new or OpeningKey::new with SingleUseNonce::new(nonce).
BoundKeyNew ==
    /\ \E kind \in {"sealing", "opening"}, algorithm \in Algorithm,
          nonce \in SequenceNonces :
          LET key == CryptoKey_new(CallerBytes(32), algorithm).key[1]
          IN  /\ calls' = <<BoundKey(kind, key, SingleUseNonce_new(nonce),
                                     nonce, 0)>>
              /\ ret' = NonceCall("new", "Ok", <<>>, nonce, <<>>, <<>>)
    /\ UNCHANGED <<files, keychain, now, overflow_checks, pure, writes>>

\* nonce_sequence.advance()
Advance ==
    /\ calls # <<>>
    /\ calls[1].advances < MaxAdvances
    /\ LET a == advance(calls[1].nonce_sequence)
       IN  /\ calls' = <<[calls[1] EXCEPT !.nonce_sequence = a.self,
                                          !.advances = @ + 1]>>
           /\ ret' = NonceCall("advance", a.status, a.nonce, <<>>, <<>>,
                               <<>>)
    /\ UNCHANGED <<files, keychain, now, overflow_checks, pure, writes>>

\* sealing_key.seal_in_place_append_tag(aad, plaintext)
Seal ==
    /\ calls # <<>>
    /\ calls[1].kind = "sealing"
    /\ calls[1].advances < MaxAdvances
    /\ \E plaintext \in Plaintexts, aad \in Aads :
          LET r == BoundKey_seal(calls[1], aad, plaintext)
          IN  /\ calls' = <<[calls[1] EXCEPT !.nonce_sequence = r.self,
                                             !.advances = @ + 1]>>
              /\ ret' = NonceCall("seal", r.status, r.nonce, plaintext, aad,
                                  r.output)
    /\ UNCHANGED <<files, keychain, now, overflow_checks, pure, writes>>

\* opening_key.open_in_place(aad, data) on what the same key and nonce seal
\* of a plaintext, or on other bytes.
Open ==
    /\ calls # <<>>
    /\ calls[1].kind = "opening"
    /\ calls[1].advances < MaxAdvances
    /\ \E data \in {seal_in_place_append_tag(calls[1].key.algorithm,
                                             calls[1].key.key,
                                             calls[1].built_from, <<>>, p) :
                        p \in Plaintexts} \cup {CallerBytes(TAG_LEN)},
          aad \in Aads :
          LET r == BoundKey_open(calls[1], aad, data)
          IN  /\ calls' = <<[calls[1] EXCEPT !.nonce_sequence = r.self,
                                             !.advances = @ + 1]>>
              /\ ret' = NonceCall("open", r.status, r.nonce, data, aad,
                                  r.output)
    /\ UNCHANGED <<files, keychain, now, overflow_checks, pure, writes>>

NextNonce ==
    \/ BoundKeyNew
    \/ Advance
    \/ Seal
    \/ Open

SpecNonce == InitNonce /\ [][NextNonce]_vars

\* ------------------------------------------------------------------- C24
\* C24: the single-use nonce sequence yields exactly one nonce.  The first
\* advance on a sequence built from a 12-byte nonce returns that nonce and
\* every later one an error, so a sealing or opening key performs at most
\* one operation: the first uses the nonce it was built with, and a second
\* one fails, never reusing the nonce and never using another one.
C24_SingleUse ==
    (calls # <<>> /\ ret.op \in {"advance", "seal", "open"}) =>
        /\ (calls[1].advances = 1 /\ Len(calls[1].built_from) = NONCE_LEN) =>
               /\ ret.op \in {"advance", "seal"} => ret.status = "Ok"
               /\ ret.status = "Ok" => ret.nonce = <<calls[1].built_from>>
               /\ ret.op = "seal" =>
                      ret.output =
                          <<seal_in_place_append_tag(
                                calls[1].key.algorithm, calls[1].key.key,
                                calls[1].built_from, ret.aad, ret.input)>>
        /\ calls[1].advances > 1 =>
               /\ ret.status = "Unspecified"
               /\ ret.nonce = <<>>
               /\ ret.output = <<>>
        /\ calls[1].nonce_sequence.nonce = <<>>

\* A sealing key built with a 12-byte nonce was asked to seal a second time
\* and refused.
C24_Witness ==
    /\ calls # <<>>
    /\ calls[1].kind = "sealing"
    /\ Len(calls[1].built_from) = NONCE_LEN
    /\ calls[1].advances = 2
    /\ ret.op = "seal"
    /\ ret.status = "Unspecified"

\* ============================== keychain.rs: calls on concurrent threads
\* rotate_key and update_metadata each read the record with get_key and
\* later write it with store_key.  The keychain serves each of these two
\* requests at once; between them other threads run.

\* Number of different materials the random source hands the rotations.
NumRaceSeeds == 2

Threads == {1, 2}

\* The steps of rotate_key after get_key has returned old_key.
rotate_key_store(kc, old_key, device_id, draw, clock, checks, backend) ==
    LET new == generate_key(old_key.metadata.algorithm, device_id, draw,
                            clock)
        sum == AddOne(old_key.metadata.version, checks)
    IN  IF new.status # "Ok"
        THEN [status |-> new.status, key |-> <<>>, keychain |-> kc]
        ELSE IF sum.panic
        THEN [status |-> "panic", key |-> <<>>, keychain |-> kc]
        ELSE
        LET new_key == rotated(old_key, new.key[1], sum.value, clock)
            stored == store_key(kc, device_id, new_key, backend)
        IN  IF stored.status # "Ok"
            THEN [status |-> stored.status, key |-> <<>>, keychain |-> kc]
            ELSE [status |-> "Ok", key |-> <<new_key>>,
                  keychain |-> stored.keychain]

\* Mutant of updated: the material read is not carried over.
updated_drops_material(key, metadata) == EncryptionKey(<<>>, metadata)

\* update_metadata: key.metadata = metadata on the key that was read.
updated(key, metadata) == [key EXCEPT !.metadata = metadata]

\* A call of a thread: the function called and its arguments, the point it
\* has reached ("get": before get_key, "store": between get_key and
\* store_key, "done": returned), the key get_key returned, and what the
\* call returned.  seen is not in the program: the number of writes the
\* keychain had taken when get_key read it.
ThreadCall(op, device_id, metadata, pc, old, seen, status, key) ==
    [op |-> op, device_id |-> device_id, metadata |-> metadata, pc |-> pc,
     old |-> old, seen |-> seen, status |-> status, key |-> key]

Idle == ThreadCall("none", "", <<>>, "idle", <<>>, 0, "Ok", <<>>)

\* The material of the keys the keychain holds before the calls.
PriorDraw == NumRaceSeeds + 1

\* The keychain holds a key for each device, generated and rotated v - 1
\* times by earlier runs.
PriorKeychain(algorithm, version) ==
    LET first == generate_key(algorithm, "USB001", PriorDraw, 0).key[1]
        second == generate_key(algorithm, "USB002", PriorDraw, 0).key[1]
        one == store_key(<<>>, "USB001",
                         [first EXCEPT !.metadata.version = U32(version)], 0)
    IN  store_key(one.keychain, "USB002", second, 0).keychain

\* Metadata a concurrent caller passes to update_metadata.
RaceMetadata(device_id) == KeyMetadata("ChaCha20", 0, <<>>, U32(7), device_id)

InitRace ==
    /\ \E algorithm \in {"AES-256", "ChaCha20"}, version \in {1, 2} :
          keychain = PriorKeychain(algorithm, version)
    /\ now = 0
    /\ overflow_checks = FALSE
    /\ pure = {}
    /\ writes = 0
    /\ calls = [t \in Threads |-> Idle]
    /\ files = <<>>
    /\ ret = Call("new", "", "Ok", <<>>, <<>>, 0, 0)

\* A thread calls rotate_key(keychain, device_id).
CallRotateKey(t) ==
    /\ calls[t].pc = "idle"
    /\ \E device_id \in DeviceIds :
          calls' = [calls EXCEPT ![t] =
                       ThreadCall("rotate_key", device_id, <<>>, "get",
                                  <<>>, 0, "Ok", <<>>)]
    /\ UNCHANGED <<files, keychain, now, overflow_checks, pure, ret, writes>>

\* A thread calls keychain.update_metadata(device_id, metadata).
CallUpdateMetadata(t) ==
    /\ calls[t].pc = "idle"
    /\ \E device_id \in DeviceIds :
          calls' = [calls EXCEPT ![t] =
                       ThreadCall("update_metadata", device_id,
                                  <<RaceMetadata(device_id)>>, "get",
                                  <<>>, 0, "Ok", <<>>)]
    /\ UNCHANGED <<files, keychain, now, overflow_checks, pure, ret, writes>>

\* get_key of rotate_key or of update_metadata returns.
ThreadGetKey(t) ==
    /\ calls[t].pc = "get"
    /\ LET got == get_key(keychain, calls[t].device_id, 0)
       IN  calls' = [calls EXCEPT ![t] =
                        [@ EXCEPT !.pc = IF got.status = "Ok" THEN "store"
                                         ELSE "done",
                                  !.status = got.status,
                                  !.old = got.key,
                                  !.seen = writes]]
    /\ UNCHANGED <<files, keychain, now, overflow_checks, pure, ret, writes>>

\* rotate_key generates the new key, stores it and returns.
ThreadRotateStore(t) ==
    /\ calls[t].pc = "store"
    /\ calls[t].op = "rotate_key"
    /\ \E draw \in 1..NumRaceSeeds :
          LET r == rotate_key_store(keychain, calls[t].old[1],
                                    calls[t].device_id, draw, now + 1,
                                    overflow_checks, 0)
          IN  /\ keychain' = r.keychain
              /\ calls' = [calls EXCEPT ![t] =
                              [@ EXCEPT !.pc = "done", !.status = r.status,
                                        !.key = r.key]]
              /\ ret' = Call("rotate_key", calls[t].device_id, r.status,
                             r.key, <<>>, 0, draw)
    /\ now' = now + 1
    /\ writes' = writes + 1
    /\ UNCHANGED <<files, overflow_checks, pure>>

\* update_metadata stores the key it read with the new metadata and
\* returns.
ThreadUpdateStore(t) ==
    /\ calls[t].pc = "store"
    /\ calls[t].op = "update_metadata"
    /\ LET r == store_key(keychain, calls[t].device_id,
                          updated(calls[t].old[1], calls[t].metadata[1]), 0)
       IN  /\ keychain' = r.keychain
           /\ calls' = [calls EXCEPT ![t] =
                           [@ EXCEPT !.pc = "done", !.status = r.status]]
           /\ ret' = Call("update_metadata", calls[t].device_id, r.status,
                          <<>>, calls[t].metadata, 0, 0)
    /\ writes' = writes + 1
    /\ UNCHANGED <<files, now, overflow_checks, pure>>

NextRace ==
    \/ \E t \in Threads : CallRotateKey(t)
    \/ \E t \in Threads : CallUpdateMetadata(t)
    \/ \E t \in Threads : ThreadGetKey(t)
    \/ \E t \in Threads : ThreadRotateStore(t)
    \/ \E t \in Threads : ThreadUpdateStore(t)

SpecRace == InitRace /\ [][NextRace]_vars

\* ------------------------------------------------------------------- C23
\* Threads t and u have both returned Ok from calls op_t and op_u for one
\* device id.
BothReturned(t, op_t, u, op_u) ==
    /\ calls[t].op = op_t
    /\ calls[u].op = op_u
    /\ calls[t].pc = "done"
    /\ calls[u].pc = "done"
    /\ calls[t].status = "Ok"
    /\ calls[u].status = "Ok"
    /\ calls[t].device_id = calls[u].device_id

\* The devices whose stored record holds a given material.
HoldersOf(material) ==
    {d \in DeviceIds : /\ Stored(keychain, d) # <<>>
                       /\ Stored(keychain, d)[1].key_material = material}

\* C23: a concurrent rotation can be lost.  When two rotate_key calls for
\* one device id both read the record (version v) before either stores,
\* both return a key of version v + 1, the store ends with one record for
\* the device, of version v + 1 and with the material of the call that
\* stored last, and the material the other call returned (when it is
\* another one) is stored nowhere.  When the second call reads after the
\* first has stored, the final version is v + 2.
C23_LostRotation ==
    \A t, u \in Threads :
        (t # u /\ BothReturned(t, "rotate_key", u, "rotate_key")) =>
            LET d == calls[t].device_id
                v == calls[t].old[1].metadata.version
                stored == Stored(keychain, d)[1]
            IN  /\ (calls[t].seen = 0 /\ calls[u].seen = 0) =>
                       /\ calls[u].old[1].metadata.version = v
                       /\ IsSuccessor(v, calls[t].key[1].metadata.version)
                       /\ IsSuccessor(v, calls[u].key[1].metadata.version)
                       /\ Cardinality({p \in DOMAIN keychain : p[2] = d}) = 1
                       /\ IsSuccessor(v, stored.metadata.version)
                       /\ stored = ret.key[1]
                       /\ \A w \in {t, u} :
                              calls[w].key[1].key_material
                                  # stored.key_material =>
                                  HoldersOf(calls[w].key[1].key_material) = {}
                /\ (calls[t].seen = 0 /\ calls[u].seen = 1) =>
                       /\ stored = calls[u].key[1]
                       /\ \E w \in {calls[u].old[1].metadata.version} :
                              /\ IsSuccessor(v, w)
                              /\ IsSuccessor(w, stored.metadata.version)

\* Two rotations of one device both read before either stored and returned
\* different materials; one of them is not in the store.
C23_Witness ==
    /\ BothReturned(1, "rotate_key", 2, "rotate_key")
    /\ calls[1].seen = 0
    /\ calls[2].seen = 0
    /\ calls[1].key[1].key_material # calls[2].key[1].key_material
    /\ \E w \in Threads : HoldersOf(calls[w].key[1].key_material) = {}

\* ------------------------------------------------------------------- C27
\* C27: in every interleaving of update_metadata(d, m) with a concurrent
\* rotate_key(d), once both calls have returned Ok the material stored for
\* d is the material the rotation generated.
C27_RotationMaterialStays ==
    \A t, u \in Threads :
        (t # u /\ BothReturned(t, "rotate_key", u, "update_metadata")) =>
            /\ Stored(keychain, calls[t].device_id) # <<>>
            /\ Stored(keychain, calls[t].device_id)[1].key_material
                   = calls[t].key[1].key_material

\* C27, amended: once update_metadata(d, m) and rotate_key(d) have both
\* returned Ok, the material stored for d is the rotation's when one call
\* read after the other had stored, and also when both read first and the
\* rotation stored last; when both read first and update_metadata stored
\* last, the stored material is the one from before the rotation.
C27_SerializedRotationStays ==
    \A t, u \in Threads :
        (t # u /\ BothReturned(t, "rotate_key", u, "update_metadata")) =>
            LET d == calls[t].device_id
                generated == calls[t].key[1].key_material
                before == calls[t].old[1].key_material
            IN  /\ Stored(keychain, d) # <<>>
                /\ (calls[t].seen = 1 \/ calls[u].seen = 1) =>
                       Stored(keychain, d)[1].key_material = generated
                /\ (calls[t].seen = 0 /\ calls[u].seen = 0
                        /\ ret.op = "rotate_key") =>
                       Stored(keychain, d)[1].key_material = generated
                /\ (calls[t].seen = 0 /\ calls[u].seen = 0
                        /\ ret.op = "update_metadata") =>
                       /\ Stored(keychain, d)[1].key_material = before
                       /\ Stored(keychain, d)[1].metadata
                              = calls[u].metadata[1]

\* update_metadata read before the rotation stored and stored after it: the
\* store holds the material from before the rotation, not the one the
\* rotation returned.
C27_Witness ==
    /\ BothReturned(1, "rotate_key", 2, "update_metadata")
    /\ calls[1].seen = 0
    /\ calls[2].seen = 0
    /\ ret.op = "update_metadata"
    /\ Stored(keychain, calls[1].device_id) # <<>>
    /\ Stored(keychain, calls[1].device_id)[1].key_material
           = calls[1].old[1].key_material
    /\ calls[1].key[1].key_material # calls[1].old[1].key_material

\* ------------------------------------------------------------------------
\* cli/main.rs: the keygen, rotate, encrypt and decrypt commands, run one
\* after the other against the keychain and the file system.
\* ------------------------------------------------------------------------

\* The random source answers 0 when it fails, and otherwise one of this many
\* materials.
NumCliSeeds == 2

CliDraws == 0..NumCliSeeds

\* What the random source answers to the nonce generator of encrypt: a
\* failure, or a nonce.
CliNonceDraws == {0, 1}

\* A path is <<directory, file name>>, the file name in bytes.
file_name(path) == path[2]

\* format!("file:{}", name) as bytes
format_file(name) == <<102, 105, 108, 101, 58>> \o name

\* The plain file ("d"), where encrypt writes ("e"), and where decrypt
\* writes: under the name of the plain file in another directory, or under
\* another name ("c").
PlainPath == <<"in", <<100>>>>

SealedPath == <<"usb", <<101>>>>

RestoredPaths == {<<"out", <<100>>>>, <<"out", <<99>>>>}

\* The algorithm names given on the command line.
CliAlgorithms == {"aes-256", "aes-128", "chacha20", "ecdsa-p256", "des"}

\* std::fs::write(path, bytes)
fs_write(fs, path, bytes) ==
    [p \in (DOMAIN fs) \cup {path} |-> IF p = path THEN bytes ELSE fs[p]]

\* cmd_keygen; draw is what the random source answers, clock the reading of
\* the clock, backend1 and backend2 what the Security framework answers to
\* key_exists and to store_key.
cmd_keygen(kc, device_id, algorithm, draw, clock, backend1, backend2) ==
    IF key_exists(kc, device_id, backend1)
    THEN [status |-> "Key already exists", keychain |-> kc]
    ELSE IF algorithm \in {"aes-256", "aes-128", "chacha20"}
    THEN LET name == CASE algorithm = "aes-256" -> "AES-256"
                       [] algorithm = "aes-128" -> "AES-128"
                       [] OTHER -> "ChaCha20"
             key == generate_key(name, device_id, draw, clock)
         IN  IF key.status # "Ok"
             THEN [status |-> key.status, keychain |-> kc]
             ELSE LET stored == store_key(kc, device_id, key.key[1], backend2)
                  IN  [status |-> stored.status, keychain |-> stored.keychain]
    ELSE IF algorithm \in {"rsa-2048", "rsa-4096", "ecdsa-p256", "ecdsa-p384"}
    THEN LET asym_alg == CASE algorithm = "rsa-2048" -> "Rsa2048"
                           [] algorithm = "rsa-4096" -> "Rsa4096"
                           [] algorithm = "ecdsa-p256" -> "EcdsaP256"
                           [] OTHER -> "EcdsaP384"
         IN  [status |-> AsymmetricKey_generate(asym_alg, draw).status,
              keychain |-> kc]
    ELSE [status |-> "Unsupported algorithm", keychain |-> kc]

\* Mutant of cmd_rotate: the new key is returned and the record is left as
\* it was.
cmd_rotate_unstored(kc, device_id, draw, clock, checks, backend1, backend2) ==
    [rotate_key(kc, device_id, draw, clock, checks, backend1, backend2)
        EXCEPT !.keychain = kc]

\* cmd_rotate
cmd_rotate(kc, device_id, draw, clock, checks, backend1, backend2) ==
    rotate_key(kc, device_id, draw, clock, checks, backend1, backend2)

\* The sealing or opening key cmd_encrypt and cmd_decrypt make of the
\* stored key: the match on metadata.algorithm, then CryptoKey::new.
crypto_key(key_data) ==
    IF key_data.metadata.algorithm = "AES-256"
    THEN CryptoKey_new(key_data.key_material, "Aes256Gcm")
    ELSE IF key_data.metadata.algorithm = "ChaCha20"
    THEN CryptoKey_new(key_data.key_material, "ChaCha20Poly1305")
    ELSE KeyResult("Unsupported algorithm", <<>>)

\* cmd_encrypt; draw is what the random source answers to the nonce
\* generator.
cmd_encrypt(kc, fs, input, output, device_id, draw, backend) ==
    LET key_data == get_key(kc, device_id, backend)
    IN  IF key_data.status # "Ok"
        THEN [status |-> key_data.status, files |-> fs]
        ELSE
        LET key == crypto_key(key_data.key[1])
        IN  IF key.status # "Ok"
            THEN [status |-> key.status, files |-> fs]
            ELSE IF input \notin DOMAIN fs
            THEN [status |-> "Io", files |-> fs]
            ELSE
            LET plaintext == fs[input]
                metadata == format_file(file_name(input))
                ciphertext == encrypt(key.key[1], plaintext, metadata, draw)
            IN  IF ciphertext.status # "Ok"
                THEN [status |-> ciphertext.status, files |-> fs]
                ELSE [status |-> "Ok",
                      files |-> fs_write(fs, output, ciphertext.output[1])]

\* cmd_decrypt
cmd_decrypt(kc, fs, input, output, device_id, backend) ==
    LET key_data == get_key(kc, device_id, backend)
    IN  IF key_data.status # "Ok"
        THEN [status |-> key_data.status, files |-> fs]
        ELSE
        LET key == crypto_key(key_data.key[1])
        IN  IF key.status # "Ok"
            THEN [status |-> key.status, files |-> fs]
            ELSE IF input \notin DOMAIN fs
            THEN [status |-> "Io", files |-> fs]
            ELSE
            LET ciphertext == fs[input]
                metadata == format_file(file_name(output))
                plaintext == decrypt(key.key[1], ciphertext, metadata)
            IN  IF plaintext.status # "Ok"
                THEN [status |-> plaintext.status, files |-> fs]
                ELSE [status |-> "Ok",
                      files |-> fs_write(fs, output, plaintext.output[1])]

\* The command that ran last, and how it ended.
Command(op, device_id, status, input, output, draw, key) ==
    [op |-> op, device_id |-> device_id, status |-> status, input |-> input,
     output |-> output, draw |-> draw, key |-> key]

\* An empty keychain and one plain file.
InitCli ==
    /\ keychain = <<>>
    /\ now = 0
    /\ overflow_checks = TRUE
    /\ ret = Command("none", "", "Ok", <<>>, <<>>, 0, <<>>)
    /\ pure = {}
    /\ writes = 0
    /\ calls = <<>>
    /\ \E content \in Plaintexts \ {<<>>} :
          files = fs_write(<<>>, PlainPath, content)

\* The commands below run against a Security framework that answers.
CmdKeygen ==
    \E device_id \in DeviceIds, algorithm \in CliAlgorithms,
       draw \in CliDraws :
        \E r \in {cmd_keygen(keychain, device_id, algorithm, draw, now + 1,
                             0, 0)} :
            /\ r.keychain # keychain => now < MaxClock
            /\ now' = IF r.keychain # keychain THEN now + 1 ELSE now
            /\ keychain' = r.keychain
            /\ ret' = Command("keygen", device_id, r.status, <<algorithm>>,
                              <<>>, draw, <<>>)
            /\ UNCHANGED <<calls, files, overflow_checks, pure, writes>>

CmdRotate ==
    \E device_id \in DeviceIds, draw \in CliDraws :
        \E r \in {cmd_rotate(keychain, device_id, draw, now + 1,
                             overflow_checks, 0, 0)} :
            /\ r.status = "Ok" => now < MaxClock
            /\ now' = IF r.status = "Ok" THEN now + 1 ELSE now
            /\ keychain' = r.keychain
            /\ ret' = Command("rotate", device_id, r.status, <<>>, <<>>, draw,
                              r.key)
            /\ UNCHANGED <<calls, files, overflow_checks, pure, writes>>

CmdEncrypt ==
    \E device_id \in DeviceIds, draw \in CliNonceDraws :
        \E r \in {cmd_encrypt(keychain, files, PlainPath, SealedPath,
                              device_id, draw, 0)} :
            /\ files' = r.files
            /\ ret' = Command("encrypt", device_id, r.status, PlainPath,
                              SealedPath, draw, <<>>)
            /\ UNCHANGED <<calls, keychain, now, overflow_checks, pure,
                           writes>>

CmdDecrypt ==
    \E device_id \in DeviceIds, input \in {SealedPath},
       output \in RestoredPaths :
        \E r \in {cmd_decrypt(keychain, files, input, output, device_id,
                              0)} :
            /\ files' = r.files
            /\ ret' = Command("decrypt", device_id, r.status, input, output,
                              0, <<>>)
            /\ UNCHANGED <<calls, keychain, now, overflow_checks, pure,
                           writes>>

NextCli ==
    \/ CmdKeygen
    \/ CmdRotate
    \/ CmdEncrypt
    \/ CmdDecrypt

SpecCli == InitCli /\ [][NextCli]_vars

\* ------------------------------------------------------------------------
\* Claims about the commands
\* ------------------------------------------------------------------------

\* The associated data cmd_encrypt binds to the sealed file.
SealedAad == format_file(file_name(PlainPath))

\* C28: the store keeps only the latest key generation.  When rotate for
\* device d has succeeded with a material other than the one it replaced
\* (which no other device held), there is exactly one record for d under
\* service_name and it is the new key, get_key returns the replaced material
\* for no device, and what encrypt produced under the replaced key fails
\* with DecryptionFailed under the key get_key(d) now returns.
C28_OnlyLatestGeneration ==
    [][(ret'.op = "rotate" /\ ret'.status = "Ok") =>
        \A d \in {ret'.device_id} :
        \A old_key \in {Stored(keychain, d)[1]}, new_key \in {ret'.key[1]},
           now_stored \in {Stored(keychain', d)} :
            (/\ new_key.key_material # old_key.key_material
             /\ HoldersOf(old_key.key_material) = {d}) =>
            /\ {k \in DOMAIN keychain' : k[2] = d} = {<<service_name, d>>}
            /\ now_stored = <<new_key>>
            /\ \A e \in DeviceIds :
                  Stored(keychain', e) # <<>> =>
                      Stored(keychain', e)[1].key_material
                          # old_key.key_material
            /\ crypto_key(old_key).status = "Ok" =>
                  \A sealing \in {crypto_key(old_key).key[1]},
                     opening \in {crypto_key(now_stored[1]).key[1]} :
                  \A plaintext \in Plaintexts, aad \in Aads \cup {SealedAad},
                     draw \in 1..MaxNonces :
                      decrypt(opening,
                              encrypt(sealing, plaintext, aad,
                                      draw).output[1],
                              aad).status = "DecryptionFailed"
      ]_vars

\* A rotation has just succeeded, and the sealed file, written under a
\* material that is no longer stored, does not open under the stored key.
C28_Witness ==
    /\ ret.op = "rotate"
    /\ ret.status = "Ok"
    /\ SealedPath \in DOMAIN files
    /\ crypto_key(Stored(keychain, ret.device_id)[1]).status = "Ok"
    /\ \E draw \in CliDraws \ {0}, nonce \in CliNonceDraws \ {0} :
        LET stored == crypto_key(Stored(keychain, ret.device_id)[1]).key[1]
            old == CryptoKey(Fill(draw, Len(stored.key)), stored.algorithm)
        IN  /\ HoldersOf(old.key) = {}
            /\ files[SealedPath]
                   = encrypt(old, files[PlainPath], SealedAad,
                             nonce).output[1]
            /\ decrypt(stored, files[SealedPath], SealedAad).status
                   = "DecryptionFailed"

\* C29: a file round trip through the commands recovers the file.  When the
\* sealed file is what encrypt made of the plain file under the key stored
\* for a device, decrypt for that device ends Ok and writes the content of
\* the plain file to its output, whatever the name of the output.
C29_FileRoundTrip ==
    (/\ ret.op = "decrypt"
     /\ Stored(keychain, ret.device_id) # <<>>
     /\ crypto_key(Stored(keychain, ret.device_id)[1]).status = "Ok"
     /\ ret.input \in DOMAIN files
     /\ \E nonce \in CliNonceDraws \ {0} :
           files[ret.input]
               = encrypt(crypto_key(Stored(keychain, ret.device_id)[1]).key[1],
                         files[PlainPath], SealedAad, nonce).output[1]) =>
        /\ ret.status = "Ok"
        /\ ret.output \in DOMAIN files
        /\ files[ret.output] = files[PlainPath]

\* C30: every symmetric key keygen stores can be used by encrypt.  With a key
\* stored for the device, the input file present and a nonce drawn, encrypt
\* ends Ok.
C30_KeygenKeyEncrypts ==
    (/\ ret.op = "encrypt"
     /\ Stored(keychain, ret.device_id) # <<>>
     /\ ret.input \in DOMAIN files
     /\ ret.draw # 0) =>
        ret.status = "Ok"

====
